---- MODULE Spec2Model ----
(***************************************************************************)
(* Qermital (src/qermital.py): the tab/pane manager of TerminalEmulator,   *)
(* the per-tab XTermWidget (process supervision, resize debounce) and the  *)
(* single-instance protocol of SingleInstanceApplication.                  *)
(*                                                                         *)
(* Conventions.  A Python str is a sequence of one-character strings. An   *)
(* optional value is a sequence of length 0 (None) or 1 (the value).       *)
(* A QTabWidget is a record [tabs, current]: tabs is the sequence of       *)
(* [widget, text] pages in tab order and current is Qt's currentIndex,     *)
(* counted from 1, with 0 for "no current tab".                            *)
(***************************************************************************)
EXTENDS Integers, Sequences, FiniteSets, TLC

VARIABLES
    win,        \* the TerminalEmulator window of the instance under study
    op,         \* the handler that ran last (history)
    scenario,   \* how far the run has followed the close/open/close example
    exit_code,  \* None while the application runs, else its exit status
    main_window, \* SingleInstanceApplication.main_window is assigned
    conn,       \* the connection the primary's QLocalServer is serving
    served,     \* connections accepted so far (history)
    inst,       \* the processes launched without --new and the endpoint
    xterm,      \* one XTermWidget with its resize timers, on a clock
    server,     \* the connections the primary's QLocalServer has accepted
    calls       \* the add_terminal_tab calls waiting in a dialog, and those done

(***************************************************************************)
(* Bounds of the model.                                                    *)
(***************************************************************************)
\* XTermWidget objects one window creates over a run
MaxWidgets == 3
\* accepted settings dialogs over a run
MaxSettingsUpdates == 1
\* connections the primary accepts over a run
MaxConns == 2
\* processes launched without --new over a run
MaxProcs == 3
\* the clock of the resize timers stops here (ms)
MaxTime == 160
\* the longest step of that clock (ms)
TickMs == 10
\* resize events of one burst
MaxNotifies == 3
\* client connections open at the primary at the same time
MaxClients == 2
\* resize_terminal calls followed at one size of a widget
MaxResizes == 2
\* terminate calls that reach process.terminate() on one widget
MaxSignals == 2

(***************************************************************************)
(* Python values.                                                          *)
(***************************************************************************)
None == <<>>

Some(x) == <<x>>

\* F applied to the value of e, which is computed once
Bind(e, F(_)) == CHOOSE r \in {F(x) : x \in {e}} : TRUE

\* bool(x) of an optional str: None and "" are falsy
Truthy(opt) == opt # None /\ opt[1] # <<>>

\* os.getcwd() of the process
Cwd == <<"~">>

\* the directories for which os.path.isdir is true
ExistingDirs == {<<"/", "t">>, Cwd}

\* values of the settings dictionary; DEFAULT_SETTINGS is one of them
DEFAULT_SETTINGS == 0

SettingsValues == {DEFAULT_SETTINGS, 1}

\* the --command and --folder values a process is launched with
CommandArgs == {None, Some(<<"l">>)}

FolderArgs == {None, Some(<<"/", "t">>)}

(***************************************************************************)
(* The wire format of send_message: json.dumps of the message, preceded by *)
(* its length as f"{length:08}".  A JSON value is a record [t, s, n, m]:   *)
(* t is its type, s the characters of a string, n the value of a number or *)
(* of a bool, m the members [k, v] of an object or the items of an array.  *)
(***************************************************************************)
JNull == [t |-> "null", s |-> <<>>, n |-> 0, m |-> <<>>]

JStr(chars) == [t |-> "str", s |-> chars, n |-> 0, m |-> <<>>]

JInt(i) == [t |-> "int", s |-> <<>>, n |-> i, m |-> <<>>]

JBool(b) == [t |-> "bool", s |-> <<>>, n |-> IF b THEN 1 ELSE 0, m |-> <<>>]

JArr(items) == [t |-> "arr", s |-> <<>>, n |-> 0, m |-> items]

JObj(members) == [t |-> "obj", s |-> <<>>, n |-> 0, m |-> members]

\* an optional str as a JSON value
JOpt(opt) == IF opt = None THEN JNull ELSE JStr(opt[1])

DigitChars == <<"0", "1", "2", "3", "4", "5", "6", "7", "8", "9">>

IsDigit(c) == \E d \in 1..10 : DigitChars[d] = c

DigitValue(c) == (CHOOSE d \in 1..10 : DigitChars[d] = c) - 1

\* str(n) for n >= 0
RECURSIVE Decimal(_)
Decimal(n) ==
    IF n < 10 THEN <<DigitChars[n + 1]>>
    ELSE Append(Decimal(n \div 10), DigitChars[(n % 10) + 1])

RECURSIVE ZeroFill(_, _)
ZeroFill(chars, width) ==
    IF Len(chars) >= width THEN chars ELSE ZeroFill(<<"0">> \o chars, width)

\* f"{length:08}"
Format08(length) == ZeroFill(Decimal(length), 8)

\* json.dumps of a str: the quote and the backslash are escaped
RECURSIVE EscapeChars(_)
EscapeChars(chars) ==
    IF chars = <<>> THEN <<>>
    ELSE (IF Head(chars) \in {"\"", "\\"} THEN <<"\\", Head(chars)>>
          ELSE <<Head(chars)>>) \o EscapeChars(Tail(chars))

NullChars == <<"n", "u", "l", "l">>

RECURSIVE dumps(_)
RECURSIVE dumps_members(_)
dumps_members(members) ==
    IF members = <<>> THEN <<>>
    ELSE <<"\"">> \o EscapeChars(Head(members).k) \o <<"\"", ":", " ">>
         \o dumps(Head(members).v)
         \o (IF Len(members) > 1 THEN <<",", " ">> ELSE <<>>)
         \o dumps_members(Tail(members))

\* json.dumps with the default separators, for the values send_message
\* builds: a dict of str and None
dumps(v) ==
    IF v.t = "obj" THEN <<"{">> \o dumps_members(v.m) \o <<"}">>
    ELSE IF v.t = "str" THEN <<"\"">> \o EscapeChars(v.s) \o <<"\"">>
    ELSE IF v.t = "int" THEN Decimal(v.n)
    ELSE NullChars

IsSpace(c) == c \in {" ", "\t", "\n", "\r"}

Fail == [ok |-> FALSE, v |-> JNull, pos |-> 0]

Parsed(v, pos) == [ok |-> TRUE, v |-> v, pos |-> pos]

RECURSIVE SkipSpace(_, _)
SkipSpace(s, i) ==
    IF i <= Len(s) /\ IsSpace(s[i]) THEN SkipSpace(s, i + 1) ELSE i

\* the characters of a JSON string whose opening quote precedes position i
RECURSIVE ScanString(_, _, _)
ScanString(s, i, acc) ==
    IF i > Len(s) THEN Fail
    ELSE IF s[i] \in {"\t", "\n", "\r"} THEN Fail
    ELSE IF s[i] = "\"" THEN Parsed(JStr(acc), i + 1)
    ELSE IF s[i] = "\\"
    THEN IF i + 1 <= Len(s) /\ s[i + 1] \in {"\"", "\\", "/"}
         THEN ScanString(s, i + 2, Append(acc, s[i + 1]))
         ELSE Fail
    ELSE ScanString(s, i + 1, Append(acc, s[i]))

RECURSIVE ScanDigits(_, _, _)
ScanDigits(s, i, acc) ==
    IF i <= Len(s) /\ IsDigit(s[i])
    THEN ScanDigits(s, i + 1, 10 * acc + DigitValue(s[i]))
    ELSE Parsed(JInt(acc), i)

HasAt(s, i, word) ==
    /\ i + Len(word) - 1 <= Len(s)
    /\ SubSeq(s, i, i + Len(word) - 1) = word

RECURSIVE ParseValue(_, _)
RECURSIVE ParseMembers(_, _, _)
RECURSIVE ParseItems(_, _, _)
\* the members of an object after "{" or after a ",": i is at a key
ParseMembers(s, i, acc) ==
    IF i > Len(s) THEN Fail
    ELSE IF s[i] # "\"" THEN Fail
    ELSE Bind(ScanString(s, i + 1, <<>>), LAMBDA key :
         IF ~key.ok THEN Fail
         ELSE Bind(SkipSpace(s, key.pos), LAMBDA colon :
         IF colon > Len(s) THEN Fail
         ELSE IF s[colon] # ":" THEN Fail
         ELSE Bind(ParseValue(s, SkipSpace(s, colon + 1)), LAMBDA val :
         IF ~val.ok THEN Fail
         ELSE Bind(SkipSpace(s, val.pos), LAMBDA nxt :
         Bind(Append(acc, [k |-> key.v.s, v |-> val.v]), LAMBDA all :
         IF nxt > Len(s) THEN Fail
         ELSE IF s[nxt] = "}" THEN Parsed(JObj(all), nxt + 1)
         ELSE IF s[nxt] = "," THEN ParseMembers(s, SkipSpace(s, nxt + 1), all)
         ELSE Fail)))))

\* the items of an array after "[" or after a ","
ParseItems(s, i, acc) ==
    Bind(ParseValue(s, i), LAMBDA val :
    IF ~val.ok THEN Fail
    ELSE Bind(SkipSpace(s, val.pos), LAMBDA nxt :
    Bind(Append(acc, val.v), LAMBDA all :
    IF nxt > Len(s) THEN Fail
    ELSE IF s[nxt] = "]" THEN Parsed(JArr(all), nxt + 1)
    ELSE IF s[nxt] = "," THEN ParseItems(s, SkipSpace(s, nxt + 1), all)
    ELSE Fail)))

\* one JSON value at position i (integers only among the numbers)
ParseValue(s, i) ==
    Bind(i, LAMBDA at :
    IF at > Len(s) THEN Fail
    ELSE IF s[at] = "{"
    THEN Bind(SkipSpace(s, at + 1), LAMBDA j :
         IF j <= Len(s) /\ s[j] = "}" THEN Parsed(JObj(<<>>), j + 1)
         ELSE ParseMembers(s, j, <<>>))
    ELSE IF s[at] = "["
    THEN Bind(SkipSpace(s, at + 1), LAMBDA j :
         IF j <= Len(s) /\ s[j] = "]" THEN Parsed(JArr(<<>>), j + 1)
         ELSE ParseItems(s, j, <<>>))
    ELSE IF s[at] = "\"" THEN ScanString(s, at + 1, <<>>)
    ELSE IF IsDigit(s[at]) THEN ScanDigits(s, at, 0)
    ELSE IF HasAt(s, at, NullChars) THEN Parsed(JNull, at + 4)
    ELSE IF HasAt(s, at, <<"t", "r", "u", "e">>) THEN Parsed(JBool(TRUE), at + 4)
    ELSE IF HasAt(s, at, <<"f", "a", "l", "s", "e">>) THEN Parsed(JBool(FALSE), at + 5)
    ELSE Fail)

\* json.loads: one value, white space around it, nothing after it; ok is
\* FALSE where json.loads raises JSONDecodeError
loads(str) ==
    Bind(str, LAMBDA s :
    Bind(ParseValue(s, SkipSpace(s, 1)), LAMBDA val :
    IF ~val.ok THEN Fail
    ELSE IF SkipSpace(s, val.pos) = Len(s) + 1 THEN val
    ELSE Fail))

\* dict.get(key): the last member of that key, None when there is none
get(data, key) ==
    LET at == {i \in 1..Len(data.m) : data.m[i].k = key}
    IN IF at = {} THEN JNull
       ELSE data.m[CHOOSE i \in at : \A j \in at : j <= i].v

\* int(str): white space around, an optional sign, then digits, single
\* underscores allowed between digits; ok is FALSE where int raises ValueError
RECURSIVE StripLeft(_)
StripLeft(s) == IF s # <<>> /\ IsSpace(Head(s)) THEN StripLeft(Tail(s)) ELSE s

RECURSIVE StripRight(_)
StripRight(s) ==
    IF s # <<>> /\ IsSpace(s[Len(s)]) THEN StripRight(SubSeq(s, 1, Len(s) - 1)) ELSE s

RECURSIVE DigitsValue(_, _)
DigitsValue(s, acc) ==
    IF s = <<>> THEN acc
    ELSE IF Head(s) = "_" THEN DigitsValue(Tail(s), acc)
    ELSE DigitsValue(Tail(s), 10 * acc + DigitValue(Head(s)))

\* the digits of a decimal literal, with single underscores between digits
WellFormedDigits(digits) ==
    /\ digits # <<>>
    /\ \A i \in 1..Len(digits) :
        \/ IsDigit(digits[i])
        \/ /\ digits[i] = "_"
           /\ 1 < i /\ i < Len(digits)
           /\ IsDigit(digits[i - 1]) /\ IsDigit(digits[i + 1])

int(chars) ==
    Bind(StripRight(StripLeft(chars)), LAMBDA body :
    Bind(body # <<>> /\ Head(body) \in {"+", "-"}, LAMBDA signed :
    Bind(IF signed THEN Tail(body) ELSE body, LAMBDA digits :
    IF ~WellFormedDigits(digits) THEN [ok |-> FALSE, n |-> 0]
    ELSE [ok |-> TRUE,
          n |-> IF signed /\ Head(body) = "-"
                THEN 0 - DigitsValue(digits, 0) ELSE DigitsValue(digits, 0)])))

(***************************************************************************)
(* QTabWidget.                                                             *)
(***************************************************************************)
EmptyTabWidget == [tabs |-> <<>>, current |-> 0]

count(tw) == Len(tw.tabs)

indexOf(tw, id) ==
    IF \E i \in 1..Len(tw.tabs) : tw.tabs[i].widget = id
    THEN CHOOSE i \in 1..Len(tw.tabs) : tw.tabs[i].widget = id
    ELSE 0

\* QTabWidget.addTab: the page goes last; the first page of an empty widget
\* becomes the current one
addTab(tw, id, label) ==
    [tabs |-> Append(tw.tabs, [widget |-> id, text |-> label]),
     current |-> IF tw.current = 0 THEN 1 ELSE tw.current]

setCurrentWidget(tw, id) ==
    IF indexOf(tw, id) = 0 THEN tw ELSE [tw EXCEPT !.current = indexOf(tw, id)]

\* QTabWidget.removeTab with QTabBar's default SelectRightTab behaviour
removeTab(tw, index) ==
    IF index \notin 1..Len(tw.tabs) THEN tw
    ELSE LET rest == SubSeq(tw.tabs, 1, index - 1)
                     \o SubSeq(tw.tabs, index + 1, Len(tw.tabs))
         IN [tabs |-> rest,
             current |-> IF index < tw.current THEN tw.current - 1
                         ELSE IF index > tw.current THEN tw.current
                         ELSE IF index <= Len(rest) THEN index
                         ELSE Len(rest)]

WidgetsOf(tw) == {tw.tabs[i].widget : i \in 1..Len(tw.tabs)}

(***************************************************************************)
(* XTermWidget: one embedded uxterm per tab.  `started` is the outcome of  *)
(* QProcess.waitForStarted(3000) for this launch.                          *)
(***************************************************************************)
start_uxterm(x, started) ==
    [x EXCEPT !.running = started,
              !.cmd_runs = IF started /\ Truthy(x.command) THEN @ + 1 ELSE @]

terminate(x) ==
    IF x.running THEN [x EXCEPT !.running = FALSE] ELSE x

restart_uxterm(x, started) == start_uxterm(terminate(x), started)

apply_settings(x, settings, started) ==
    restart_uxterm([x EXCEPT !.current_settings = settings], started)

XTermWidget(initial_directory, command, started) ==
    start_uxterm(
        [initial_directory |-> IF Truthy(initial_directory)
                               THEN initial_directory[1] ELSE Cwd,
         command |-> command,
         current_settings |-> DEFAULT_SETTINGS,
         running |-> FALSE,
         cmd_runs |-> 0],
        started)

(***************************************************************************)
(* TerminalEmulator.  Every handler is a function from the window before   *)
(* the call to the window after it; `oks` holds the outcomes of the two    *)
(* launches a tab creation makes (XTermWidget.__init__, then the           *)
(* apply_settings of add_terminal_tab).                                    *)
(***************************************************************************)
show_normal(w) == [w EXCEPT !.visible = TRUE]

hide(w) == [w EXCEPT !.visible = FALSE]

second(w) == w.second_tab_widget[1]

\* add_terminal_tab without the setCurrentWidget after addTab
add_terminal_tab_unfocused(w, directory, command, pane, oks) ==
    LET dir == IF Truthy(directory) THEN directory ELSE Some(w.initial_directory)
        target == IF pane = "second" THEN "second" ELSE "main"
        execute_command == target = "main" /\ ~w.command_executed /\ Truthy(w.command)
        cmd == IF execute_command THEN w.command ELSE command
        counter == w.tab_counter + 1
        id == w.next_id
        terminal_widget ==
            apply_settings(XTermWidget(dir, cmd, oks[1]), w.settings, oks[2])
        w1 == [w EXCEPT !.command_executed = IF execute_command THEN TRUE ELSE @,
                        !.startup_tabs = IF execute_command THEN @ + 1 ELSE @,
                        !.tab_counter = counter,
                        !.next_id = id + 1,
                        !.widgets = id :> terminal_widget @@ @]
        w2 == IF target = "main"
              THEN [w1 EXCEPT !.main_tab_widget =
                                  addTab(@, id, counter)]
              ELSE IF w1.second_tab_widget # None
              THEN [w1 EXCEPT !.second_tab_widget =
                                  Some(addTab(@[1], id, counter))]
              ELSE w1
    IN show_normal(w2)

add_terminal_tab(w, directory, command, pane, oks) ==
    LET dir == IF Truthy(directory) THEN directory ELSE Some(w.initial_directory)
        target == IF pane = "second" THEN "second" ELSE "main"
        execute_command == target = "main" /\ ~w.command_executed /\ Truthy(w.command)
        cmd == IF execute_command THEN w.command ELSE command
        counter == w.tab_counter + 1
        id == w.next_id
        terminal_widget ==
            apply_settings(XTermWidget(dir, cmd, oks[1]), w.settings, oks[2])
        w1 == [w EXCEPT !.command_executed = IF execute_command THEN TRUE ELSE @,
                        !.startup_tabs = IF execute_command THEN @ + 1 ELSE @,
                        !.tab_counter = counter,
                        !.next_id = id + 1,
                        !.widgets = id :> terminal_widget @@ @]
        w2 == IF target = "main"
              THEN [w1 EXCEPT !.main_tab_widget =
                                  setCurrentWidget(addTab(@, id, counter), id)]
              ELSE IF w1.second_tab_widget # None
              THEN [w1 EXCEPT !.second_tab_widget =
                                  Some(setCurrentWidget(addTab(@[1], id, counter), id))]
              ELSE w1
    IN show_normal(w2)

create_second_pane(w) == [w EXCEPT !.second_tab_widget = Some(EmptyTabWidget)]

\* initialize_double_pane without the test for an existing second pane
initialize_double_pane_unchecked(w, oks) ==
    add_terminal_tab(create_second_pane(w), None, None, "second", oks)

initialize_double_pane(w, oks) ==
    LET w1 == IF count(w.main_tab_widget) = 0
              THEN add_terminal_tab(w, None, None, "main", oks) ELSE w
    IN IF w1.second_tab_widget = None
       THEN add_terminal_tab(create_second_pane(w1), None, None, "second", oks)
       ELSE w1

\* the widget of a closed tab is terminated and leaves the window's tabs
drop(w, id) == [w EXCEPT !.widgets = [i \in DOMAIN @ \ {id} |-> @[i]]]

\* tab.terminate() of a handler that closes the tab or the window
terminate_tab(w, id) ==
    [w EXCEPT !.widgets[id] = terminate(@), !.terminated = @ \cup {id}]

\* close_main_tab without the replacement tab
close_main_tab_no_replacement(w, index, oks) ==
    LET id == w.main_tab_widget.tabs[index].widget
    IN drop([terminate_tab(w, id) EXCEPT
                 !.main_tab_widget = removeTab(@, index)], id)

\* close_main_tab that stops the process of every tab of the main pane
close_main_tab_stopping_all(w, index, oks) ==
    LET id == w.main_tab_widget.tabs[index].widget
        stopped == [w EXCEPT !.widgets = [i \in DOMAIN @ |->
                                  IF i \in WidgetsOf(w.main_tab_widget)
                                  THEN terminate(@[i]) ELSE @[i]]]
        w1 == drop([terminate_tab(stopped, id) EXCEPT
                        !.main_tab_widget = removeTab(@, index)], id)
    IN IF count(w1.main_tab_widget) = 0
       THEN add_terminal_tab([w1 EXCEPT !.tab_counter = 0,
                                        !.command_executed = FALSE],
                             None, None, "main", oks)
       ELSE w1

close_main_tab(w, index, oks) ==
    LET id == w.main_tab_widget.tabs[index].widget
        w1 == drop([terminate_tab(w, id) EXCEPT
                        !.main_tab_widget = removeTab(@, index)], id)
    IN IF count(w1.main_tab_widget) = 0
       THEN add_terminal_tab([w1 EXCEPT !.tab_counter = 0,
                                        !.command_executed = FALSE],
                             None, None, "main", oks)
       ELSE w1

\* move_tab_to_second_pane that adds the page to the second pane without
\* removing it from the main pane
move_tab_copy(w, from, index, oks) ==
    IF from # "main" THEN w
    ELSE LET page == w.main_tab_widget.tabs[index]
             w2 == IF w.second_tab_widget = None THEN create_second_pane(w) ELSE w
         IN [w2 EXCEPT !.second_tab_widget =
                 Some(setCurrentWidget(addTab(@[1], page.widget, page.text),
                                       page.widget))]

\* move_tab_to_second_pane that puts the page first in the second pane
move_tab_prepending(w, from, index, oks) ==
    IF from # "main" THEN w
    ELSE LET page == w.main_tab_widget.tabs[index]
             w1 == [w EXCEPT !.main_tab_widget = removeTab(@, index)]
             w2 == IF w1.second_tab_widget = None THEN create_second_pane(w1) ELSE w1
             w3 == [w2 EXCEPT !.second_tab_widget =
                        Some([tabs |-> <<page>> \o @[1].tabs, current |-> 1])]
         IN IF count(w3.main_tab_widget) = 0
            THEN add_terminal_tab(w3, None, None, "main", oks)
            ELSE w3

\* move_tab_to_second_pane without the test of the source pane: the tab at
\* `index` of the main pane is moved whichever pane asked
move_tab_unchecked(w, from, index, oks) ==
    IF index > count(w.main_tab_widget) THEN w
    ELSE LET page == w.main_tab_widget.tabs[index]
             w1 == [w EXCEPT !.main_tab_widget = removeTab(@, index)]
             w2 == IF w1.second_tab_widget = None THEN create_second_pane(w1) ELSE w1
             w3 == [w2 EXCEPT !.second_tab_widget =
                        Some(setCurrentWidget(addTab(@[1], page.widget, page.text),
                                              page.widget))]
         IN IF count(w3.main_tab_widget) = 0
            THEN add_terminal_tab(w3, None, None, "main", oks)
            ELSE w3

move_tab_to_second_pane(w, from, index, oks) ==
    IF from # "main" THEN w
    ELSE LET page == w.main_tab_widget.tabs[index]
             w1 == [w EXCEPT !.main_tab_widget = removeTab(@, index)]
             w2 == IF w1.second_tab_widget = None THEN create_second_pane(w1) ELSE w1
             w3 == [w2 EXCEPT !.second_tab_widget =
                        Some(setCurrentWidget(addTab(@[1], page.widget, page.text),
                                              page.widget))]
         IN IF count(w3.main_tab_widget) = 0
            THEN add_terminal_tab(w3, None, None, "main", oks)
            ELSE w3

RECURSIVE move_all_to_main(_)
move_all_to_main(w) ==
    IF count(second(w)) = 0 THEN w
    ELSE LET page == second(w).tabs[1]
         IN move_all_to_main(
                [w EXCEPT !.second_tab_widget = Some(removeTab(@[1], 1)),
                          !.main_tab_widget =
                              setCurrentWidget(addTab(@, page.widget, page.text),
                                               page.widget)])

\* close_second_half that removes the second pane with its tabs in it
close_second_half_discarding(w) ==
    [w EXCEPT !.second_tab_widget = None]

close_second_half(w) ==
    IF w.second_tab_widget = None THEN w
    ELSE [move_all_to_main(w) EXCEPT !.second_tab_widget = None]

\* close_second_tab that keeps the emptied second pane
close_second_tab_keep_pane(w, index) ==
    IF w.second_tab_widget = None THEN w
    ELSE LET id == second(w).tabs[index].widget
         IN drop([terminate_tab(w, id) EXCEPT
                      !.second_tab_widget = Some(removeTab(@[1], index))], id)

close_second_tab(w, index) ==
    IF w.second_tab_widget = None THEN w
    ELSE LET id == second(w).tabs[index].widget
             w1 == drop([terminate_tab(w, id) EXCEPT
                             !.second_tab_widget = Some(removeTab(@[1], index))], id)
         IN IF count(second(w1)) = 0
            THEN [w1 EXCEPT !.second_tab_widget = None]
            ELSE w1

\* open_settings_dialog that goes through the tabs of the main pane only
open_settings_dialog_main_only(w, settings, started) ==
    [w EXCEPT !.settings = settings,
              !.settings_updates = @ + 1,
              !.widgets = [i \in DOMAIN @ |->
                              IF i \in WidgetsOf(w.main_tab_widget)
                              THEN apply_settings(@[i], settings, started)
                              ELSE @[i]]]

\* open_settings_dialog, accepted with `settings`: every tab of both panes
\* restarts; `started` is the outcome of those launches
open_settings_dialog(w, settings, started) ==
    LET shown == WidgetsOf(w.main_tab_widget)
                 \cup (IF w.second_tab_widget = None THEN {}
                       ELSE WidgetsOf(second(w)))
    IN [w EXCEPT !.settings = settings,
                 !.settings_updates = @ + 1,
                 !.widgets = [i \in DOMAIN @ |->
                                 IF i \in shown
                                 THEN apply_settings(@[i], settings, started)
                                 ELSE @[i]]]

\* TerminalEmulator.__init__ up to its first add_terminal_tab: the fields
\* are set, the main pane is there without a tab
EmptyWindow(args, settings) ==
    [initial_directory |-> IF Truthy(args.folder) THEN args.folder[1] ELSE Cwd,
     command |-> args.command,
     tab_counter |-> 0,
     command_executed |-> FALSE,
     second_tab_widget |-> None,
     settings |-> settings,
     main_tab_widget |-> EmptyTabWidget,
     widgets |-> <<>>,
     next_id |-> 1,
     visible |-> FALSE,
     double_timer |-> FALSE,
     startup_tabs |-> 0,
     settings_updates |-> 0,
     terminated |-> {}]

\* TerminalEmulator.__init__ followed by the show() of main; `settings` is
\* what load_settings reads from QSettings
TerminalEmulator(args, settings, oks) ==
    LET w0 == EmptyWindow(args, settings)
        w1 == add_terminal_tab(w0, None, None, "main", oks)
        w2 == IF args.tray THEN hide(w1) ELSE w1
        w3 == [w2 EXCEPT !.double_timer = args.double]
        w4 == IF args.max THEN show_normal(w3) ELSE w3
    IN IF args.tray THEN w4 ELSE show_normal(w4)

Args == [folder : {None}, command : CommandArgs,
         tray : {FALSE}, double : BOOLEAN, max : {FALSE}]

Outcomes == BOOLEAN \X BOOLEAN

(***************************************************************************)
(* The window under user operations: one action per handler.  The event    *)
(* loop dispatches one handler at a time, so each action is a whole        *)
(* handler.                                                                *)
(***************************************************************************)
paneVars == <<win, op, scenario, exit_code>>

ipcVars == <<main_window, conn, served>>

instVars == <<inst>>

resizeVars == <<xterm>>

multiVars == <<server>>

nestVars == <<calls>>

\* what the handlers of the window leave alone
notPane == <<ipcVars, instVars, resizeVars, multiVars, nestVars>>

\* what the primary's connection handling leaves alone
notIpc == <<instVars, resizeVars, multiVars, nestVars>>

vars == <<paneVars, ipcVars, instVars, resizeVars, multiVars, nestVars>>

Procs == 1..MaxProcs

\* a process before main() runs
NotStarted ==
    [pc |-> "main", role |-> "none", window |-> FALSE, sessions |-> 0,
     sent |-> 0, warned |-> FALSE, exit_code |-> None,
     new |-> FALSE, connected |-> None, received |-> 0]

\* no process launched yet, nothing at SERVER_NAME
NoInstances ==
    [procs |-> [p \in Procs |-> NotStarted],
     socket_file |-> FALSE, listening |-> {}, requests |-> 0]

InstIdle == inst = NoInstances

Range(seq) == {seq[i] : i \in 1..Len(seq)}

QSize(width, height) == [width |-> width, height |-> height]

\* an XTermWidget right after add_terminal_tab made it, at time 0: not yet
\* laid out (a QWidget starts at 640x480), resize_timer created and
\* stopped, and one QTimer.singleShot(100, ...) pending for each of the two
\* start_uxterm calls (from __init__ and from apply_settings)
InitialResizeDelay == 100

\* Its uxterm runs (QProcess.state() is Running, the process is alive and
\* has a tty) with xterm's own 80x24 until resize_terminal is called; no
\* warning has been shown and terminate was not called.
NewXterm ==
    [now |-> 0, size |-> QSize(640, 480), resize_timer |-> None,
     single_shots |-> <<InitialResizeDelay, InitialResizeDelay>>,
     calls |-> <<>>, last_notify |-> None, notifies |-> 0,
     process |-> "Running", alive |-> TRUE, tty |-> TRUE,
     geometry |-> [size |-> QSize(640, 480), cols |-> 80, rows |-> 24],
     warnings |-> 0, sigterm |-> 0, sigkill |-> 0, waited |-> 0,
     last |-> "start_uxterm"]

ResizeIdle == xterm = NewXterm

\* a QLocalServer that has accepted no connection: the sockets it has
\* made, those still in its queue of pending connections, for each socket
\* the socket its readyRead handler reads (0: no handler), the sockets
\* whose readyRead has been handled, and for each socket the widgets made
\* from what was read from it (history)
NoServer ==
    [socks |-> <<>>, pending |-> <<>>, reads |-> <<>>, fired |-> {},
     tab_of |-> <<>>]

MultiIdle == server = NoServer

\* no add_terminal_tab call in progress, none finished (history)
NoCalls == [stack |-> <<>>, done |-> <<>>]

NestIdle == calls = NoCalls

NoConn ==
    [origin |-> "none", message |-> JNull, stream |-> <<>>, pos |-> 0,
     split |-> FALSE, buf |-> <<>>, open |-> FALSE, warned |-> FALSE,
     received |-> <<>>, created |-> 0, raised |-> FALSE,
     main_before |-> <<>>, client |-> None, exception |-> FALSE]

IpcIdle ==
    /\ main_window = TRUE
    /\ conn = NoConn
    /\ served = 0

Init ==
    /\ \E a \in Args, s \in SettingsValues, oks \in Outcomes :
        win = TerminalEmulator(a, s, oks)
    /\ op = "__init__"
    /\ scenario = 0
    /\ exit_code = None
    /\ IpcIdle
    /\ InstIdle
    /\ ResizeIdle
    /\ MultiIdle
    /\ NestIdle

CanCreate == win.next_id <= MaxWidgets

\* the example: from the window as constructed, close the only tab, open the
\* second pane, close the second pane; -1 once the run has left the example
Follow(handler) ==
    IF scenario = 0 /\ handler = "close_main_tab" THEN 1
    ELSE IF scenario = 1 /\ handler = "initialize_double_pane" THEN 2
    ELSE IF scenario = 2 /\ handler = "close_second_half" THEN 3
    ELSE -1

\* merge_xresources, called at the top of every start_uxterm: None if
\* xdotool, uxterm and xrdb are all found, else the status of its sys.exit
merge_xresources(present) == IF present THEN None ELSE Some(1)

\* the handler reaches a start_uxterm: it creates a widget or restarts some
Spawns(before, after) ==
    \/ after.next_id # before.next_id
    \/ after.settings_updates # before.settings_updates

\* Handle for an application that gives up when a launch it made did not
\* report started
Handle_failing(handler, after, present) ==
    /\ win' = after
    /\ exit_code' = IF \E id \in DOMAIN after.widgets :
                          id >= win.next_id /\ ~after.widgets[id].running
                    THEN Some(1) ELSE merge_xresources(present)
    /\ op' = handler
    /\ scenario' = Follow(handler)

\* a handler that would leave the window as `after` runs while the
\* executables are `present` or not: SystemExit is no Exception, so it
\* leaves start_uxterm and the handler, and the application exits (the
\* window of an exited application is left as it was)
Handle(handler, after, present) ==
    IF Spawns(win, after) /\ merge_xresources(present) # None
    THEN /\ win' = win
         /\ exit_code' = merge_xresources(present)
         /\ op' = "sys.exit"
         /\ scenario' = Follow("sys.exit")
    ELSE /\ win' = after
         /\ exit_code' = None
         /\ op' = handler
         /\ scenario' = Follow(handler)

\* context menu "Add Tab" on either pane
AddTab ==
    /\ exit_code = None
    /\ CanCreate
    /\ \E pane \in {"main", "second"}, oks \in Outcomes, present \in BOOLEAN :
        /\ pane = "second" => win.second_tab_widget # None
        /\ Handle("add_terminal_tab", add_terminal_tab(win, None, None, pane, oks), present)
    /\ UNCHANGED notPane

\* context menu "Open Dual Pane" of the main pane, offered while no second
\* pane exists
OpenDualPane ==
    /\ exit_code = None
    /\ CanCreate
    /\ win.second_tab_widget = None
    /\ \E oks \in Outcomes, present \in BOOLEAN :
        Handle("initialize_double_pane", initialize_double_pane(win, oks), present)
    /\ UNCHANGED notPane

\* the QTimer.singleShot(500, initialize_double_pane) of --double
DoubleTimer ==
    /\ exit_code = None
    /\ CanCreate
    /\ win.double_timer
    /\ \E oks \in Outcomes, present \in BOOLEAN :
        Handle("initialize_double_pane",
               [initialize_double_pane(win, oks) EXCEPT !.double_timer = FALSE],
               present)
    /\ UNCHANGED notPane

\* tabCloseRequested of the main pane
CloseMainTab ==
    /\ exit_code = None
    /\ CanCreate
    /\ \E index \in 1..count(win.main_tab_widget), oks \in Outcomes,
          present \in BOOLEAN :
        Handle("close_main_tab", close_main_tab(win, index, oks), present)
    /\ UNCHANGED notPane

\* tabCloseRequested of the second pane
CloseSecondTab ==
    /\ exit_code = None
    /\ win.second_tab_widget # None
    /\ \E index \in 1..count(second(win)) :
        win' = close_second_tab(win, index)
    /\ op' = "close_second_tab"
    /\ scenario' = Follow("close_second_tab")
    /\ UNCHANGED exit_code
    /\ UNCHANGED notPane

\* context menu "Move Tab to Second Pane" of the main pane: the user selects
\* tab `index` and moves it (show_context_menu acts on currentIndex)
MoveTab ==
    /\ exit_code = None
    /\ CanCreate
    /\ \E index \in 1..count(win.main_tab_widget), oks \in Outcomes,
          present \in BOOLEAN :
        Handle("move_tab_to_second_pane",
               move_tab_to_second_pane(
                   [win EXCEPT !.main_tab_widget.current = index],
                   "main", index, oks), present)
    /\ UNCHANGED notPane

\* context menu "Move Tab to Second Pane" of the second pane, on its current
\* tab
MoveSecondTab ==
    /\ exit_code = None
    /\ win.second_tab_widget # None
    /\ \E oks \in Outcomes, present \in BOOLEAN :
        Handle("move_tab_to_second_pane(second_tab_widget)",
               move_tab_to_second_pane(win, "second", second(win).current, oks),
               present)
    /\ UNCHANGED notPane

\* context menu "Close Second Pane"
CloseSecondHalf ==
    /\ exit_code = None
    /\ win.second_tab_widget # None
    /\ win' = close_second_half(win)
    /\ op' = "close_second_half"
    /\ scenario' = Follow("close_second_half")
    /\ UNCHANGED exit_code
    /\ UNCHANGED notPane

\* the settings dialog, accepted
AcceptSettings ==
    /\ exit_code = None
    /\ win.settings_updates < MaxSettingsUpdates
    /\ \E s \in SettingsValues, started \in BOOLEAN, present \in BOOLEAN :
        Handle("open_settings_dialog", open_settings_dialog(win, s, started), present)
    /\ UNCHANGED notPane

\* the settings dialog, left without accepting: dialog.exec() is not
\* QDialog.Accepted and the dialog worked on a copy of the settings
RejectSettings ==
    /\ exit_code = None
    /\ win' = win
    /\ op' = "open_settings_dialog(rejected)"
    /\ scenario' = Follow("open_settings_dialog(rejected)")
    /\ UNCHANGED exit_code
    /\ UNCHANGED notPane

PaneNext ==
    \/ AddTab
    \/ OpenDualPane
    \/ DoubleTimer
    \/ CloseMainTab
    \/ CloseSecondTab
    \/ MoveTab
    \/ MoveSecondTab
    \/ CloseSecondHalf
    \/ AcceptSettings
    \/ RejectSettings

Next == PaneNext

Spec == Init /\ [][Next]_vars

(***************************************************************************)
(* SingleInstanceApplication: the client side (send_message) and the       *)
(* primary's side (read_socket, handle_new_instance_message) of one        *)
(* connection.                                                             *)
(***************************************************************************)
ActionKey == <<"a", "c", "t", "i", "o", "n">>

FolderKey == <<"f", "o", "l", "d", "e", "r">>

CommandKey == <<"c", "o", "m", "m", "a", "n", "d">>

OpenNewTab == <<"o", "p", "e", "n", "_", "n", "e", "w", "_", "t", "a", "b">>

\* the message dict of send_message
Message(args) ==
    JObj(<<[k |-> ActionKey, v |-> JStr(OpenNewTab)],
           [k |-> FolderKey,
            v |-> IF Truthy(args.folder) THEN JStr(args.folder[1]) ELSE JNull],
           [k |-> CommandKey,
            v |-> IF Truthy(args.command) THEN JStr(args.command[1]) ELSE JNull]>>)

\* the bytes send_message writes for a message: header, then body
Encode(message) ==
    Bind(dumps(message), LAMBDA message_json :
         Format08(Len(message_json)) \o message_json)

\* send_message: what the client writes to its socket (nothing, after a
\* warning, when waitForConnected(1000) fails)
\* send_message that does not test waitForConnected
send_message_unchecked(args, connected) ==
    [written |-> Encode(Message(args)), warned |-> FALSE]

send_message(args, connected) ==
    IF connected
    THEN [written |-> Encode(Message(args)), warned |-> FALSE]
    ELSE [written |-> <<>>, warned |-> TRUE]

\* a JSON str or null as the optional str add_terminal_tab takes
AsOptional(v) == IF v.t = "str" THEN Some(v.s) ELSE None

\* bool(v) of a decoded JSON value
JTruthy(v) ==
    \/ v.t = "str" /\ v.s # <<>>
    \/ v.t \in {"int", "bool"} /\ v.n # 0
    \/ v.t \in {"arr", "obj"} /\ v.m # <<>>

\* handle_new_instance_message: the window after the call, the tabs it
\* added, and whether it left by an exception it does not catch
\* (AttributeError of data.get on a value that is no dict, TypeError of
\* os.path.isdir on a list or a dict)
handle_new_instance_message(w, message, oks) ==
    Bind(loads(message), LAMBDA parsed :
    IF ~parsed.ok
    THEN [win |-> show_normal(add_terminal_tab(w, None, None, "main", oks)),
          created |-> 1, exception |-> FALSE]
    ELSE IF parsed.v.t # "obj"
    THEN [win |-> w, created |-> 0, exception |-> TRUE]
    ELSE Bind(get(parsed.v, ActionKey), LAMBDA action :
         Bind(get(parsed.v, FolderKey), LAMBDA folder :
         Bind(get(parsed.v, CommandKey), LAMBDA command :
         IF action # JStr(OpenNewTab)
         THEN [win |-> w, created |-> 0, exception |-> FALSE]
         ELSE IF JTruthy(folder) /\ folder.t \in {"arr", "obj"}
         THEN [win |-> w, created |-> 0, exception |-> TRUE]
         ELSE IF JTruthy(folder) /\ folder.t = "str" /\ folder.s \in ExistingDirs
         THEN [win |-> show_normal(add_terminal_tab(w, Some(folder.s),
                                                    AsOptional(command), "main", oks)),
               created |-> 1, exception |-> FALSE]
         ELSE [win |-> show_normal(add_terminal_tab(w, None,
                                                    AsOptional(command), "main", oks)),
               created |-> 1, exception |-> FALSE]))))

\* QIODevice.read(maxSize): at most maxSize of the buffered bytes; nothing
\* for a negative maxSize
Take(buf, maxSize) ==
    IF maxSize <= 0 THEN <<>>
    ELSE SubSeq(buf, 1, IF maxSize < Len(buf) THEN maxSize ELSE Len(buf))

Rest(buf, maxSize) ==
    IF maxSize <= 0 THEN buf ELSE SubSeq(buf, maxSize + 1, Len(buf))

disconnectFromServer(c) == [c EXCEPT !.open = FALSE, !.buf = <<>>]

\* read_socket, the slot of readyRead: the connection and the window after
\* one call
read_socket(c, w, registered, oks) ==
    IF Len(c.buf) < 8 THEN [conn |-> c, win |-> w]
    ELSE Bind(int(Take(c.buf, 8)), LAMBDA length :
         Bind([c EXCEPT !.buf = Rest(@, 8)], LAMBDA c1 :
         IF ~length.ok
         THEN [conn |-> disconnectFromServer([c1 EXCEPT !.warned = TRUE]),
               win |-> w]
         ELSE IF Len(c1.buf) < length.n THEN [conn |-> c1, win |-> w]
         ELSE Bind(Take(c1.buf, length.n), LAMBDA message :
              Bind([c1 EXCEPT !.buf = Rest(@, length.n)], LAMBDA c2 :
              IF message = <<>> \/ ~registered
              THEN [conn |-> disconnectFromServer(c2), win |-> w]
              ELSE Bind(handle_new_instance_message(w, message, oks), LAMBDA h :
                   IF h.exception
                   THEN [conn |-> [c2 EXCEPT !.received = Append(@, message),
                                             !.exception = TRUE],
                         win |-> h.win]
                   ELSE [conn |-> disconnectFromServer(
                                     [c2 EXCEPT !.received = Append(@, message),
                                                !.created = @ + h.created,
                                                !.raised = h.win.visible]),
                         win |-> h.win])))))

\* SingleInstanceApplication.__init__ of a process whose server.listen
\* returned `listening`: the role it takes, what it writes to the primary,
\* and, for a client, the status it exits with before main creates a window
SingleInstanceApplication(args, listening, connected) ==
    IF listening
    THEN [role |-> "primary", written |-> <<>>, warned |-> FALSE,
          exited |-> FALSE, exit_code |-> 0]
    ELSE LET sent == send_message(args, connected)
         IN [role |-> "client", written |-> sent.written, warned |-> sent.warned,
             exited |-> TRUE, exit_code |-> 0]

(***************************************************************************)
(* The primary serving connections, one after the other.  The bytes of a   *)
(* connection reach the primary's socket in chunks of any size; every      *)
(* arrival emits readyRead, which runs read_socket.                        *)
(***************************************************************************)
\* the command lines of the client processes
ClientArgs ==
    [folder : {None, Some(<<"/", "t">>)}, command : {None, Some(<<"\"">>)},
     tray : {FALSE}, double : {FALSE}, max : {FALSE}]

NoArgs == [folder |-> None, command |-> None,
           tray |-> FALSE, double |-> FALSE, max |-> FALSE]

\* the body send_message writes for a process launched without arguments
PlainBody == dumps(Message(NoArgs))

\* byte streams of local processes other than qermital clients: the plain
\* body behind headers of eight bytes that are not eight digits, and behind
\* the header send_message would write
ForeignHeaders ==
    {<<"a", "b", "c", "d", "e", "f", "g", "h">>,
     <<"+">> \o Tail(Format08(Len(PlainBody))),
     <<" ">> \o Tail(Format08(Len(PlainBody))),
     <<"0", "0", "0", "0", "_">> \o SubSeq(Format08(Len(PlainBody)), 6, 8),
     Format08(Len(PlainBody))}

\* bodies of other local processes: text that is not JSON, JSON values that
\* are not objects, and objects without the keys send_message writes
ForeignBodies ==
    {<<"{">>, <<"]">>,
     <<"[", "]">>, <<"5">>, NullChars, <<"\"", "a", "\"">>,
     <<"{", "}">>,
     dumps(JObj(<<[k |-> ActionKey, v |-> JStr(OpenNewTab)]>>))}

\* what send_message writes for a body: its length in eight digits, then it
Frame(body) == Format08(Len(body)) \o body

\* the smallest body that asks for a tab
ShortBody == dumps(JObj(<<[k |-> ActionKey, v |-> JStr(OpenNewTab)]>>))

\* two complete frames written one behind the other
BackToBack ==
    {Frame(ShortBody) \o Frame(ShortBody),
     Frame(<<"5">>) \o Frame(ShortBody)}

\* streams that end early: inside the header, inside the body, and a
\* header that declares five bytes more than follow it
Incomplete ==
    {SubSeq(Frame(ShortBody), 1, 5),
     SubSeq(Frame(ShortBody), 1, 20),
     Format08(Len(Frame(ShortBody)) + 5) \o Frame(ShortBody)}

ForeignStreams ==
    {h \o PlainBody : h \in ForeignHeaders}
        \cup {Format08(Len(body)) \o body : body \in ForeignBodies}
        \cup BackToBack
        \cup Incomplete

NewConn(origin, message, stream, client) ==
    [origin |-> origin, message |-> message, stream |-> stream, pos |-> 0,
     split |-> FALSE, buf |-> <<>>, open |-> TRUE, warned |-> FALSE,
     received |-> <<>>, created |-> 0, raised |-> FALSE,
     main_before |-> win.main_tab_widget.tabs, client |-> client,
     exception |-> FALSE]

\* nothing more will happen on the connection
ConnOver == conn.origin = "none" \/ ~conn.open \/ conn.pos = Len(conn.stream)

InitIpc ==
    /\ \E a \in Args : win = TerminalEmulator([a EXCEPT !.double = FALSE],
                                              DEFAULT_SETTINGS, <<TRUE, TRUE>>)
    /\ op = "__init__"
    /\ scenario = 0
    /\ exit_code = None
    /\ IpcIdle
    /\ InstIdle
    /\ ResizeIdle
    /\ MultiIdle
    /\ NestIdle

\* a process is launched without --new while the primary owns the endpoint:
\* listen fails, the process connects, writes its message and exits
LaunchClient ==
    /\ ConnOver
    /\ served < MaxConns
    /\ \E a \in ClientArgs :
        LET app == SingleInstanceApplication(a, FALSE, TRUE)
        IN conn' = NewConn("client", Message(a), app.written,
                           Some([role |-> app.role, exited |-> app.exited,
                                 exit_code |-> app.exit_code,
                                 window |-> ~app.exited]))
    /\ served' = served + 1
    /\ UNCHANGED <<paneVars, main_window, notIpc>>

\* another local process connects to the endpoint and writes bytes
ForeignConnect ==
    /\ ConnOver
    /\ served < MaxConns
    /\ \E stream \in ForeignStreams :
        conn' = NewConn("foreign", JNull, stream, None)
    /\ served' = served + 1
    /\ UNCHANGED <<paneVars, main_window, notIpc>>

\* the next k bytes arrive and readyRead runs read_socket
Deliver ==
    /\ conn.origin # "none"
    /\ conn.open
    /\ conn.pos < Len(conn.stream)
    /\ CanCreate
    /\ \E k \in 1..(Len(conn.stream) - conn.pos) :
        \E arrived \in {[conn EXCEPT
                            !.pos = @ + k,
                            !.buf = @ \o SubSeq(conn.stream, conn.pos + 1, conn.pos + k),
                            !.split = @ \/ k < Len(conn.stream)]} :
            \E r \in {read_socket(arrived, win, main_window, <<TRUE, TRUE>>)} :
                /\ conn' = r.conn
                /\ win' = r.win
    /\ op' = "read_socket"
    /\ scenario' = Follow("read_socket")
    /\ UNCHANGED exit_code
    /\ UNCHANGED <<main_window, served, notIpc>>

NextIpc ==
    \/ LaunchClient
    \/ ForeignConnect
    \/ Deliver
    \/ OpenDualPane

SpecIpc == InitIpc /\ [][NextIpc]_vars

(***************************************************************************)
(* Start-up of processes launched without --new.  Each runs main(): the    *)
(* SingleInstanceApplication constructor tries to listen on SERVER_NAME;   *)
(* where that succeeds main goes on to build the window and run the event  *)
(* loop, where it fails the constructor sends one message and exits.  The  *)
(* steps of different processes interleave freely.                         *)
(***************************************************************************)
\* a mutant of listen: the name is removed first (QLocalServer.removeServer),
\* so binding always succeeds
listen_after_remove(socket_file) == TRUE

\* QLocalServer.listen(SERVER_NAME) with default socket options: it binds
\* the name, which fails while the name is in use
listen(socket_file) == ~socket_file

notInst == <<paneVars, ipcVars, resizeVars, multiVars, nestVars>>

InitInst ==
    /\ \E a \in Args : win = TerminalEmulator([a EXCEPT !.double = FALSE],
                                              DEFAULT_SETTINGS, <<TRUE, TRUE>>)
    /\ op = "__init__"
    /\ scenario = 0
    /\ exit_code = None
    /\ IpcIdle
    /\ \E launched \in [Procs -> {[NotStarted EXCEPT !.new = n] : n \in BOOLEAN}] :
        inst = [NoInstances EXCEPT !.procs = launched]
    /\ ResizeIdle
    /\ MultiIdle
    /\ NestIdle

\* SingleInstanceApplication.__init__ up to the branch on server.listen
Listen(p) ==
    /\ inst.procs[p].pc = "main"
    /\ ~inst.procs[p].new
    /\ IF listen(inst.socket_file)
       THEN inst' = [inst EXCEPT !.procs[p].pc = "TerminalEmulator",
                                 !.procs[p].role = "primary",
                                 !.socket_file = TRUE,
                                 !.listening = @ \cup {p}]
       ELSE inst' = [inst EXCEPT !.procs[p].pc = "send_message",
                                 !.procs[p].role = "client"]
    /\ UNCHANGED notInst

\* the else branch: send_message, then sys.exit(0).  The connection is made
\* if some process is listening at the name.
SendMessage(p) ==
    /\ inst.procs[p].pc = "send_message"
    /\ LET connected == inst.listening # {}
           sent == send_message(NoArgs, connected)
           wrote == IF sent.written # <<>> THEN 1 ELSE 0
       IN inst' = [inst EXCEPT
                      !.procs = [q \in Procs |->
                          IF q = p
                          THEN [@[q] EXCEPT !.pc = "exited",
                                            !.connected = Some(connected),
                                            !.sent = @ + wrote,
                                            !.warned = sent.warned,
                                            !.exit_code = Some(0)]
                          ELSE IF q \in inst.listening
                          THEN [@[q] EXCEPT !.received = @ + wrote]
                          ELSE @[q]],
                      !.requests = @ + wrote]
    /\ UNCHANGED notInst

\* main() after the constructor returned: the window with its first tab is
\* built, assigned to app.main_window and shown, and app.exec() starts
CreateWindow(p) ==
    /\ inst.procs[p].pc = "TerminalEmulator"
    /\ inst' = [inst EXCEPT !.procs[p].pc = "exec",
                            !.procs[p].window = TRUE,
                            !.procs[p].sessions = 1]
    /\ UNCHANGED notInst

\* a primary ends: app.exec() returns and the process exits, its server
\* closing and removing the name, or the process is killed and the name
\* stays behind
Exit(p) ==
    /\ inst.procs[p].pc \in {"TerminalEmulator", "exec"}
    /\ \E clean \in BOOLEAN :
        inst' = [inst EXCEPT
                    !.procs[p].pc = "exited",
                    !.procs[p].window = FALSE,
                    !.procs[p].exit_code = IF clean THEN Some(0) ELSE None,
                    !.listening = @ \ {p},
                    !.socket_file = IF clean /\ p \in inst.listening
                                    THEN FALSE ELSE @]
    /\ UNCHANGED notInst

\* the --new branch of main with a server at the name, a mutant
new_instance_listening(i, p) ==
    [i EXCEPT !.procs[p].pc = "exec",
              !.procs[p].role = "separate",
              !.procs[p].window = TRUE,
              !.procs[p].sessions = 1,
              !.socket_file = TRUE,
              !.listening = @ \cup {p}]

\* the --new branch of main: a plain QApplication, the window with its
\* first tab, show, app.exec(); no QLocalServer and no QLocalSocket
new_instance(i, p) ==
    [i EXCEPT !.procs[p].pc = "exec",
              !.procs[p].role = "separate",
              !.procs[p].window = TRUE,
              !.procs[p].sessions = 1]

NewInstance(p) ==
    /\ inst.procs[p].pc = "main"
    /\ inst.procs[p].new
    /\ inst' = new_instance(inst, p)
    /\ UNCHANGED notInst

NextInst ==
    \/ \E p \in Procs : Listen(p)
    \/ \E p \in Procs : SendMessage(p)
    \/ \E p \in Procs : CreateWindow(p)
    \/ \E p \in Procs : Exit(p)
    \/ \E p \in Procs : NewInstance(p)

SpecInst == InitInst /\ [][NextInst]_vars

(***************************************************************************)
(* The resize debounce of one XTermWidget, on a clock in milliseconds.  A  *)
(* handler runs at the instant its event arrives, and a timer that is due  *)
(* times out before any later event is handled.                            *)
(***************************************************************************)
\* resize_timer.start(50) in eventFilter
ResizeInterval == 50

char_width == 7

char_height == 15

Max(a, b) == IF a >= b THEN a ELSE b

\* the sizes the layout gives the widget
Sizes == {QSize(640, 480), QSize(800, 600), QSize(5, 10)}

\* int(a / b) of Python for integers a and b > 0: the quotient as a float,
\* cut off towards zero
IntOfQuotient(a, b) == IF a >= 0 THEN a \div b ELSE 0 - ((0 - a) \div b)

\* resize_terminal without the max(1, ...) on columns and rows
resize_terminal_unclamped(x, origin) ==
    IF x.process = "none"
    THEN [x EXCEPT !.warnings = @ + 1, !.last = "resize_terminal"]
    ELSE IF x.process # "Running" \/ ~x.alive
    THEN [x EXCEPT !.last = "resize_terminal"]
    ELSE LET cols == IntOfQuotient(x.size.width, char_width)
             rows == IntOfQuotient(x.size.height, char_height)
         IN [x EXCEPT
                !.calls = Append(@, [origin |-> origin, size |-> x.size,
                                     cols |-> cols, rows |-> rows, at |-> x.now]),
                !.geometry = IF x.tty
                             THEN [size |-> x.size, cols |-> cols, rows |-> rows]
                             ELSE [@ EXCEPT !.size = x.size],
                !.last = "resize_terminal"]

\* resize_terminal; `origin` names the caller (history).  Without a
\* self.process (start_uxterm left before it made one) the AttributeError
\* is caught and shown by QMessageBox.warning; with a process that is not
\* running processId() is 0 and nothing is done; with a running uxterm
\* the window is resized to self.size(), and the tty, if ps names one, to
\* the columns and rows derived from it.
resize_terminal(x, origin) ==
    IF x.process = "none"
    THEN [x EXCEPT !.warnings = @ + 1, !.last = "resize_terminal"]
    ELSE IF x.process # "Running" \/ ~x.alive
    THEN [x EXCEPT !.last = "resize_terminal"]
    ELSE LET cols == Max(1, IntOfQuotient(x.size.width, char_width))
             rows == Max(1, IntOfQuotient(x.size.height, char_height))
         IN [x EXCEPT
                !.calls = Append(@, [origin |-> origin, size |-> x.size,
                                     cols |-> cols, rows |-> rows, at |-> x.now]),
                !.geometry = IF x.tty
                             THEN [size |-> x.size, cols |-> cols, rows |-> rows]
                             ELSE [@ EXCEPT !.size = x.size],
                !.last = "resize_terminal"]

\* QTimer.isActive: the timer is running
isActive(timer) == timer # None

\* a mutant of eventFilter: a running timer is left alone
eventFilter_no_restart(x) ==
    IF isActive(x.resize_timer) THEN x
    ELSE [x EXCEPT !.resize_timer = Some(x.now + ResizeInterval)]

\* eventFilter on QEvent.Resize: QTimer.start(50) starts the single-shot
\* timer, or restarts it if it is running
eventFilter(x) ==
    [x EXCEPT !.resize_timer = Some(x.now + ResizeInterval)]

\* the deadlines of the timers that are running
Deadlines(x) ==
    {x.single_shots[i] : i \in 1..Len(x.single_shots)}
        \cup (IF isActive(x.resize_timer) THEN {x.resize_timer[1]} ELSE {})

Due(x) == \E d \in Deadlines(x) : d <= x.now

\* the resize event continues the burst of the one before it
SameBurst(x) ==
    x.last_notify # None /\ x.now - x.last_notify[1] < ResizeInterval

notResize == <<paneVars, ipcVars, instVars, multiVars, nestVars>>

InitResize ==
    /\ \E a \in Args : win = TerminalEmulator([a EXCEPT !.double = FALSE],
                                              DEFAULT_SETTINGS, <<TRUE, TRUE>>)
    /\ op = "__init__"
    /\ scenario = 0
    /\ exit_code = None
    /\ IpcIdle
    /\ InstIdle
    /\ ResizeIdle
    /\ MultiIdle
    /\ NestIdle

\* the layout resizes the widget: the widget has its new size when the
\* QResizeEvent reaches eventFilter
Notify ==
    /\ ~Due(xterm)
    /\ SameBurst(xterm) => xterm.notifies < MaxNotifies
    /\ \E size \in Sizes :
        LET resized == [xterm EXCEPT
                           !.size = size,
                           !.last_notify = Some(xterm.now),
                           !.notifies = IF SameBurst(xterm) THEN @ + 1 ELSE 1,
                           !.calls = IF SameBurst(xterm) THEN @ ELSE <<>>]
        IN xterm' = eventFilter(resized)
    /\ UNCHANGED notResize

\* resize_timer times out: it is single-shot, so it stops, and its slot
\* resize_terminal runs
Timeout ==
    /\ isActive(xterm.resize_timer)
    /\ xterm.resize_timer[1] <= xterm.now
    /\ xterm' = resize_terminal([xterm EXCEPT !.resize_timer = None],
                                "resize_timer")
    /\ UNCHANGED notResize

\* a QTimer.singleShot(100, self.resize_terminal) of start_uxterm fires
InitialResize ==
    /\ xterm.single_shots # <<>>
    /\ Head(xterm.single_shots) <= xterm.now
    /\ xterm' = resize_terminal([xterm EXCEPT !.single_shots = Tail(@)],
                                "singleShot")
    /\ UNCHANGED notResize

\* time passes, up to the next deadline
Tick ==
    /\ ~Due(xterm)
    /\ xterm.now < MaxTime
    /\ \E step \in 1..TickMs :
        /\ step = TickMs \/ xterm.now + step \in Deadlines(xterm)
        /\ \A d \in Deadlines(xterm) : xterm.now + step <= d
        /\ xterm.now + step <= MaxTime
        /\ xterm' = [xterm EXCEPT !.now = @ + step]
    /\ UNCHANGED notResize

NextResize ==
    \/ Notify
    \/ Timeout
    \/ InitialResize
    \/ Tick

SpecResize == InitResize /\ [][NextResize]_vars

(***************************************************************************)
(* Several clients connected to the primary at the same time, each having  *)
(* written its whole frame.  QLocalServer takes one connection at a time   *)
(* from the listening socket: it queues the new QLocalSocket and emits     *)
(* newConnection, whose slot receive_message runs at once and empties the  *)
(* queue.  readyRead of a socket is emitted from the event loop later.     *)
(***************************************************************************)
\* receive_message that hands every readyRead to the first socket accepted
receive_message_first(srv) ==
    [srv EXCEPT !.reads = [i \in DOMAIN @ |-> IF i \in Range(srv.pending) THEN 1 ELSE @[i]],
                !.pending = <<>>]

\* receive_message: every pending connection gets a readyRead handler, a
\* lambda that reads the variable client_connection of this call when it
\* runs; after the loop that variable is the last connection taken
receive_message(srv) ==
    IF srv.pending = <<>> THEN srv
    ELSE [srv EXCEPT !.reads = [i \in DOMAIN @ |->
                                   IF i \in Range(srv.pending)
                                   THEN srv.pending[Len(srv.pending)] ELSE @[i]],
                     !.pending = <<>>]

\* QLocalServer.incomingConnection: the socket is made and queued
incomingConnection(srv, socket) ==
    [srv EXCEPT !.socks = Append(@, socket),
                !.pending = Append(@, Len(srv.socks) + 1),
                !.reads = Append(@, 0),
                !.tab_of = Append(@, <<>>)]

notMulti == <<ipcVars, instVars, resizeVars, nestVars>>

InitMulti ==
    /\ \E a \in Args : win = TerminalEmulator([a EXCEPT !.double = FALSE],
                                              DEFAULT_SETTINGS, <<TRUE, TRUE>>)
    /\ op = "__init__"
    /\ scenario = 0
    /\ exit_code = None
    /\ IpcIdle
    /\ InstIdle
    /\ ResizeIdle
    /\ MultiIdle
    /\ NestIdle

\* a client has connected and written its frame: the server accepts the
\* connection and emits newConnection
NewConnection ==
    /\ Len(server.socks) < MaxClients
    /\ \E a \in ClientArgs :
        LET arrived == [NewConn("client", Message(a), Encode(Message(a)), None)
                            EXCEPT !.pos = Len(Encode(Message(a))),
                                   !.buf = Encode(Message(a))]
        IN server' = receive_message(incomingConnection(server, arrived))
    /\ UNCHANGED <<paneVars, notMulti>>

\* readyRead of socket i: its handler runs read_socket on the socket it
\* reads
ReadyRead(i) ==
    /\ i \in DOMAIN server.socks
    /\ i \notin server.fired
    /\ server.reads[i] # 0
    /\ CanCreate
    /\ \E oks \in Outcomes :
        LET from == server.reads[i]
        IN \E r \in {read_socket(server.socks[from], win, main_window, oks)} :
            /\ win' = r.win
            /\ server' = [server EXCEPT
                             !.socks[from] = r.conn,
                             !.fired = @ \cup {i},
                             !.tab_of[from] =
                                 IF r.win.next_id # win.next_id
                                 THEN Append(@, win.next_id) ELSE @]
    /\ op' = "read_socket"
    /\ scenario' = Follow("read_socket")
    /\ UNCHANGED <<exit_code, notMulti>>

NextMulti ==
    \/ NewConnection
    \/ \E i \in 1..MaxClients : ReadyRead(i)

SpecMulti == InitMulti /\ [][NextMulti]_vars

(***************************************************************************)
(* add_terminal_tab step by step.  When a launch of uxterm fails,          *)
(* start_uxterm shows QMessageBox.critical, whose exec() runs the event    *)
(* loop until the user closes the box: the call waits there while the      *)
(* event loop dispatches what arrives, a forwarded new-tab request among   *)
(* it.  The box is modal, so the user cannot reach the menus meanwhile.    *)
(***************************************************************************)
\* add_terminal_tab from its first line to the end of XTermWidget(...):
\* the command is chosen, tab_counter is incremented, the widget is made
\* and its first launch has `started` or failed into the dialog
add_terminal_tab_enter(w, directory, command, pane, started) ==
    LET dir == IF Truthy(directory) THEN directory ELSE Some(w.initial_directory)
        target == IF pane = "second" THEN "second" ELSE "main"
        execute_command == target = "main" /\ ~w.command_executed /\ Truthy(w.command)
        cmd == IF execute_command THEN w.command ELSE command
    IN [win |-> [w EXCEPT !.command_executed = IF execute_command THEN TRUE ELSE @,
                          !.startup_tabs = IF execute_command THEN @ + 1 ELSE @,
                          !.tab_counter = @ + 1,
                          !.next_id = @ + 1],
        frame |-> [pane |-> target, id |-> w.next_id,
                   counter |-> w.tab_counter + 1,
                   terminal_widget |-> XTermWidget(dir, cmd, started),
                   pc |-> IF started THEN "apply_settings" ELSE "critical:__init__",
                   interleaved |-> FALSE]]

\* terminal_widget.apply_settings(self.settings): the restart has `started`
\* or failed into the dialog
add_terminal_tab_apply(w, frame, started) ==
    [frame EXCEPT !.terminal_widget = apply_settings(@, w.settings, started),
                  !.pc = IF started THEN "addTab" ELSE "critical:apply_settings"]

\* the rest of add_terminal_tab: the label is made from tab_counter as it
\* is now, the tab is added to its pane and made current, the window raised
add_terminal_tab_leave(w, frame) ==
    LET w1 == [w EXCEPT !.widgets = frame.id :> frame.terminal_widget @@ @]
        w2 == IF frame.pane = "main"
              THEN [w1 EXCEPT !.main_tab_widget =
                        setCurrentWidget(addTab(@, frame.id, w.tab_counter), frame.id)]
              ELSE IF w1.second_tab_widget # None
              THEN [w1 EXCEPT !.second_tab_widget =
                        Some(setCurrentWidget(addTab(@[1], frame.id, w.tab_counter),
                                              frame.id))]
              ELSE w1
    IN show_normal(w2)

\* a call at apply_settings runs on: to its end, or into the dialog
add_terminal_tab_run(w, frame, started) ==
    LET applied == add_terminal_tab_apply(w, frame, started)
    IN IF applied.pc = "addTab"
       THEN [win |-> add_terminal_tab_leave(w, applied),
             frame |-> [applied EXCEPT !.pc = "return"]]
       ELSE [win |-> w, frame |-> applied]

\* what a finished call did (history): the value it gave tab_counter, the
\* label and the place of its tab
Done(w, frame) ==
    [counter |-> frame.counter,
     text |-> w.tab_counter,
     interleaved |-> frame.interleaved]

\* the stack and the log after a call ran as far as `r`
Returned(stack, r) ==
    IF r.frame.pc = "return"
    THEN [stack |-> stack, done |-> Append(calls.done, Done(r.win, r.frame))]
    ELSE [stack |-> Append(stack, r.frame), done |-> calls.done]

notNest == <<ipcVars, instVars, resizeVars, multiVars>>

InitNest ==
    /\ \E a \in Args : win = TerminalEmulator([a EXCEPT !.double = FALSE],
                                              DEFAULT_SETTINGS, <<TRUE, TRUE>>)
    /\ op = "__init__"
    /\ scenario = 0
    /\ exit_code = None
    /\ IpcIdle
    /\ InstIdle
    /\ ResizeIdle
    /\ MultiIdle
    /\ NestIdle

\* add_terminal_tab is called: by "Add Tab" of the context menu, which the
\* user reaches only while no dialog is open, or by
\* handle_new_instance_message for a request that read_socket has decoded
Call ==
    /\ CanCreate
    /\ \E origin \in {"show_context_menu", "read_socket"},
          a \in ClientArgs, oks \in Outcomes :
        /\ origin = "show_context_menu" => calls.stack = <<>> /\ a = NoArgs
        /\ LET entered == add_terminal_tab_enter(win, a.folder, a.command,
                                                 "main", oks[1])
               r == IF entered.frame.pc = "apply_settings"
                    THEN add_terminal_tab_run(entered.win, entered.frame, oks[2])
                    ELSE entered
               waiting == [i \in DOMAIN calls.stack |->
                              [calls.stack[i] EXCEPT !.interleaved = TRUE]]
           IN /\ win' = r.win
              /\ calls' = Returned(waiting, r)
        /\ op' = origin
        /\ scenario' = Follow(origin)
    /\ UNCHANGED <<exit_code, notNest>>

\* the user closes the dialog on top: the call that opened it runs on
CloseDialog ==
    /\ calls.stack # <<>>
    /\ \E started \in BOOLEAN :
        LET frame == calls.stack[Len(calls.stack)]
            below == SubSeq(calls.stack, 1, Len(calls.stack) - 1)
            r == IF frame.pc = "critical:__init__"
                 THEN add_terminal_tab_run(win, frame, started)
                 ELSE [win |-> add_terminal_tab_leave(win, frame),
                       frame |-> [frame EXCEPT !.pc = "return"]]
        IN /\ win' = r.win
           /\ calls' = Returned(below, r)
    /\ op' = "add_terminal_tab"
    /\ scenario' = Follow("add_terminal_tab")
    /\ UNCHANGED <<exit_code, notNest>>

NextNest ==
    \/ Call
    \/ CloseDialog

SpecNest == InitNest /\ [][NextNest]_vars

(***************************************************************************)
(* The primary from listen() to app.exec().  main builds the window while  *)
(* the server already listens and registers it afterwards; connections     *)
(* are served only where an event loop runs: in app.exec(), or in the      *)
(* dialog of a failed launch while the window is being built.              *)
(***************************************************************************)
InitStartup ==
    /\ \E a \in Args : win = EmptyWindow([a EXCEPT !.double = FALSE], DEFAULT_SETTINGS)
    /\ op = "SingleInstanceApplication"
    /\ scenario = 0
    /\ exit_code = None
    /\ main_window = FALSE
    /\ conn = NoConn
    /\ served = 0
    /\ InstIdle
    /\ ResizeIdle
    /\ MultiIdle
    /\ NestIdle

\* the window has its first tab and __init__ has returned
Built == win.next_id > 1 /\ calls.stack = <<>>

\* an event loop is running
Dispatching == main_window \/ calls.stack # <<>>

\* main: TerminalEmulator(...) runs its add_terminal_tab, to the end or into
\* the dialog of a failed launch
Construct ==
    /\ win.next_id = 1
    /\ calls.stack = <<>>
    /\ \E oks \in Outcomes :
        LET entered == add_terminal_tab_enter(win, None, None, "main", oks[1])
            r == IF entered.frame.pc = "apply_settings"
                 THEN add_terminal_tab_run(entered.win, entered.frame, oks[2])
                 ELSE entered
        IN /\ win' = r.win
           /\ calls' = Returned(<<>>, r)
    /\ op' = "__init__"
    /\ scenario' = Follow("__init__")
    /\ UNCHANGED <<exit_code, notNest>>

\* main: app.main_window = terminal_emulator, then app.exec()
Register ==
    /\ ~main_window
    /\ Built
    /\ main_window' = TRUE
    /\ op' = "main"
    /\ scenario' = Follow("main")
    /\ UNCHANGED <<win, exit_code, conn, served, notIpc>>

\* a readyRead is dispatched by the event loop that is running
Serve == Dispatching /\ Deliver

NextStartup ==
    \/ Construct
    \/ CloseDialog
    \/ Register
    \/ LaunchClient
    \/ Serve

SpecStartup == InitStartup /\ [][NextStartup]_vars

(***************************************************************************)
(* add_terminal_tab as its callers may call it: any directory, any         *)
(* command, either pane, whether or not the second pane exists.            *)
(***************************************************************************)
InitCreate ==
    /\ \E a \in Args, oks \in Outcomes :
        win = TerminalEmulator([a EXCEPT !.double = FALSE], DEFAULT_SETTINGS, oks)
    /\ op = "__init__"
    /\ scenario = 0
    /\ exit_code = None
    /\ IpcIdle
    /\ InstIdle
    /\ ResizeIdle
    /\ MultiIdle
    /\ NestIdle

\* self.add_terminal_tab(directory, command, pane)
CreateSession ==
    /\ exit_code = None
    /\ CanCreate
    /\ \E pane \in {"main", "second"}, a \in ClientArgs, oks \in Outcomes :
        /\ win' = add_terminal_tab(win, a.folder, a.command, pane, oks)
        /\ op' = IF pane = "main" THEN "add_terminal_tab"
                 ELSE "add_terminal_tab(pane='second')"
        /\ scenario' = Follow("add_terminal_tab")
    /\ UNCHANGED <<exit_code, notPane>>

NextCreate ==
    \/ CreateSession
    \/ OpenDualPane
    \/ CloseSecondHalf

SpecCreate == InitCreate /\ [][NextCreate]_vars

(***************************************************************************)
(* One XTermWidget and its process: terminate and resize_terminal called   *)
(* in any order, on a process in any state, at any size.                   *)
(***************************************************************************)
\* the milliseconds terminate waits for the process to finish
WaitForFinished == 3000

\* XTermWidget.terminate without the test of the process state
XTermWidget_terminate_unchecked(x, graceful) ==
    IF graceful \/ ~x.alive
    THEN [x EXCEPT !.sigterm = @ + 1, !.process = "NotRunning", !.alive = FALSE,
                   !.waited = 0, !.last = "terminate"]
    ELSE [x EXCEPT !.sigterm = @ + 1, !.sigkill = @ + 1, !.alive = FALSE,
                   !.waited = WaitForFinished, !.last = "terminate"]

\* XTermWidget.terminate on the widget's QProcess; `graceful`: the process
\* ends within the wait after process.terminate().  After kill() the
\* process is dead, and QProcess.state() stays Running until the event loop
\* has seen it end.
XTermWidget_terminate(x, graceful) ==
    IF x.process = "none" \/ x.process = "NotRunning"
    THEN [x EXCEPT !.waited = 0, !.last = "terminate"]
    ELSE IF graceful \/ ~x.alive
    THEN [x EXCEPT !.sigterm = @ + 1, !.process = "NotRunning", !.alive = FALSE,
                   !.waited = 0, !.last = "terminate"]
    ELSE [x EXCEPT !.sigterm = @ + 1, !.sigkill = @ + 1, !.alive = FALSE,
                   !.waited = WaitForFinished, !.last = "terminate"]

\* sizes around the multiples of the character cell, the empty size included
ProcSizes == {QSize(w, h) : w \in {0, 6, 7, 20}, h \in {0, 14, 15, 44}}

\* the states start_uxterm can leave the process in: no self.process (it
\* left before QProcess(self)), not started, running
ProcStates == {"none", "NotRunning", "Running"}

InitProc ==
    /\ \E a \in Args : win = TerminalEmulator([a EXCEPT !.double = FALSE],
                                              DEFAULT_SETTINGS, <<TRUE, TRUE>>)
    /\ op = "__init__"
    /\ scenario = 0
    /\ exit_code = None
    /\ IpcIdle
    /\ InstIdle
    /\ \E state \in ProcStates, tty \in BOOLEAN, size \in ProcSizes :
        xterm = [NewXterm EXCEPT !.process = state, !.alive = (state = "Running"),
                                 !.tty = tty, !.size = size, !.single_shots = <<>>]
    /\ MultiIdle
    /\ NestIdle

\* terminate is called (closing the tab, restarting, closing the window)
ProcTerminate ==
    /\ xterm.sigterm < MaxSignals
    /\ \E graceful \in BOOLEAN : xterm' = XTermWidget_terminate(xterm, graceful)
    /\ UNCHANGED notResize

\* resize_terminal is called
ProcResize ==
    /\ Len(xterm.calls) < MaxResizes
    /\ xterm.warnings < MaxResizes
    /\ xterm' = resize_terminal(xterm, "resize_timer")
    /\ UNCHANGED notResize

\* the layout gives the widget another size
ProcLayout ==
    /\ \E size \in ProcSizes \ {xterm.size} :
        xterm' = [xterm EXCEPT !.size = size, !.calls = <<>>, !.last = "resizeEvent"]
    /\ UNCHANGED notResize

\* the shell in uxterm ends, or the event loop sees a killed process end
ProcFinished ==
    /\ xterm.process = "Running"
    /\ xterm' = [xterm EXCEPT !.process = "NotRunning", !.alive = FALSE,
                              !.last = "finished"]
    /\ UNCHANGED notResize

NextProc ==
    \/ ProcTerminate
    \/ ProcResize
    \/ ProcLayout
    \/ ProcFinished

SpecProc == InitProc /\ [][NextProc]_vars

(***************************************************************************)
(* Leaving the application.  QApplication.quit() of Qt 6 delivers a Quit   *)
(* event that first closes every visible top-level window, each through    *)
(* its closeEvent, and gives up if one of them refuses; a window hidden to *)
(* the tray gets no closeEvent.                                            *)
(***************************************************************************)
RECURSIVE terminate_all(_, _)
\* tab.terminate() for the widgets of `pages`, in order
terminate_all(w, pages) ==
    IF pages = <<>> THEN w
    ELSE terminate_all(terminate_tab(w, Head(pages).widget), Tail(pages))

\* closeEvent with the answer to "Are you sure you want to quit Qermital?":
\* the window after it and whether QApplication.quit() was reached
closeEvent(w, reply) ==
    IF reply = "Yes"
    THEN LET w1 == terminate_all(w, w.main_tab_widget.tabs)
             w2 == IF w1.second_tab_widget # None
                   THEN terminate_all(w1, second(w1).tabs) ELSE w1
         IN [win |-> hide(w2), quit |-> TRUE]
    ELSE [win |-> w, quit |-> FALSE]

\* QApplication.instance().quit(), the slot of both "Exit App" actions
quit(w, reply) ==
    IF w.visible THEN closeEvent(w, reply) ELSE [win |-> w, quit |-> TRUE]

\* the status app.exec() returns to sys.exit once the application has quit
Exited(r) == IF r.quit THEN Some(0) ELSE None

QuitArgs == [folder : {None}, command : {None},
             tray : BOOLEAN, double : {FALSE}, max : {FALSE}]

Replies == {"Yes", "No"}

InitQuit ==
    /\ \E a \in QuitArgs, oks \in Outcomes :
        win = TerminalEmulator(a, DEFAULT_SETTINGS, oks)
    /\ op = "__init__"
    /\ scenario = 0
    /\ exit_code = None
    /\ IpcIdle
    /\ InstIdle
    /\ ResizeIdle
    /\ MultiIdle
    /\ NestIdle

\* "Minimize to Tray" of the context menu or of the tray menu
MinimizeToTray ==
    /\ exit_code = None
    /\ win' = hide(win)
    /\ op' = "hide"
    /\ scenario' = Follow("hide")
    /\ UNCHANGED <<exit_code, notPane>>

\* "Restore" of the tray menu, or a click on the tray icon
Restore ==
    /\ exit_code = None
    /\ win' = show_normal(win)
    /\ op' = "show_normal"
    /\ scenario' = Follow("show_normal")
    /\ UNCHANGED <<exit_code, notPane>>

\* the user closes the window, which is on screen, and answers the question
CloseWindow ==
    /\ exit_code = None
    /\ win.visible
    /\ \E reply \in Replies :
        /\ win' = closeEvent(win, reply).win
        /\ exit_code' = Exited(closeEvent(win, reply))
    /\ op' = "closeEvent"
    /\ scenario' = Follow("closeEvent")
    /\ UNCHANGED notPane

\* "Exit App": of the tab context menu, which needs the window on screen,
\* or of the tray menu
ExitApp ==
    /\ exit_code = None
    /\ \E origin \in {"show_context_menu", "init_tray"}, reply \in Replies :
        /\ origin = "show_context_menu" => win.visible
        /\ win' = quit(win, reply).win
        /\ exit_code' = Exited(quit(win, reply))
    /\ op' = "quit"
    /\ scenario' = Follow("quit")
    /\ UNCHANGED notPane

NextQuit ==
    \/ AddTab
    \/ MoveTab
    \/ CloseSecondTab
    \/ MinimizeToTray
    \/ Restore
    \/ CloseWindow
    \/ ExitApp

SpecQuit == InitQuit /\ [][NextQuit]_vars

(***************************************************************************)
(* A window started with --tray: what can happen while it is in the tray.  *)
(* The tab context menu needs the window on screen; the tray menu, the     *)
(* timer of --double and requests of other instances do not.               *)
(***************************************************************************)
TrayArgs == [folder : {None}, command : {None},
             tray : {TRUE}, double : BOOLEAN, max : {FALSE}]

InitTray ==
    /\ \E a \in TrayArgs, oks \in Outcomes :
        win = TerminalEmulator(a, DEFAULT_SETTINGS, oks)
    /\ op = "__init__"
    /\ scenario = 0
    /\ exit_code = None
    /\ IpcIdle
    /\ InstIdle
    /\ ResizeIdle
    /\ MultiIdle
    /\ NestIdle

\* read_socket hands the request of a process launched without arguments
\* to handle_new_instance_message
ForwardedRequest ==
    /\ exit_code = None
    /\ CanCreate
    /\ \E oks \in Outcomes, present \in BOOLEAN :
        Handle("handle_new_instance_message",
               handle_new_instance_message(win, PlainBody, oks).win, present)
    /\ UNCHANGED notPane

NextTray ==
    \/ DoubleTimer
    \/ ForwardedRequest
    \/ Restore
    \/ MinimizeToTray
    \/ AcceptSettings
    \/ RejectSettings

SpecTray == InitTray /\ [][NextTray]_vars

(***************************************************************************)
(* Renaming tabs.  A label is kept as a number: n > 0 is the text          *)
(* add_terminal_tab gives to the n-th tab, 0 the empty text, a negative    *)
(* number a text no tab was created with.                                  *)
(***************************************************************************)
EmptyText == 0

\* what the user may leave in the input dialog: nothing, a text of their
\* own, the label the first tab was created with
Names == {EmptyText, 0 - 1, 1}

\* QTabWidget.setTabText
setTabText(tw, index, text) ==
    IF index \in 1..Len(tw.tabs) THEN [tw EXCEPT !.tabs[index].text = text] ELSE tw

\* rename_tab that restarts the uxterm of the tab it renames
rename_tab_restarting(w, pane, index, new_tab_text, ok) ==
    IF ~(ok /\ new_tab_text # EmptyText) THEN w
    ELSE IF pane = "main"
    THEN [terminate_tab(w, w.main_tab_widget.tabs[index].widget)
             EXCEPT !.main_tab_widget = setTabText(@, index, new_tab_text)]
    ELSE [terminate_tab(w, second(w).tabs[index].widget)
             EXCEPT !.second_tab_widget = Some(setTabText(@[1], index, new_tab_text))]

\* rename_tab on the tab `index` of `pane`; QInputDialog.getText returned
\* (new_tab_text, ok)
rename_tab(w, pane, index, new_tab_text, ok) ==
    IF ~(ok /\ new_tab_text # EmptyText) THEN w
    ELSE IF pane = "main"
    THEN [w EXCEPT !.main_tab_widget = setTabText(@, index, new_tab_text)]
    ELSE [w EXCEPT !.second_tab_widget = Some(setTabText(@[1], index, new_tab_text))]

InitRename ==
    /\ \E a \in Args, oks \in Outcomes :
        win = TerminalEmulator(a, DEFAULT_SETTINGS, oks)
    /\ op = "__init__"
    /\ scenario = 0
    /\ exit_code = None
    /\ IpcIdle
    /\ InstIdle
    /\ ResizeIdle
    /\ MultiIdle
    /\ NestIdle

\* context menu "Rename Tab" of either pane; the dialog is accepted or not
RenameTab ==
    /\ exit_code = None
    /\ \E pane \in {"main", "second"}, new_tab_text \in Names, ok \in BOOLEAN :
        /\ pane = "second" => win.second_tab_widget # None
        /\ \E index \in 1..count(IF pane = "main" THEN win.main_tab_widget
                                 ELSE second(win)) :
            win' = rename_tab(win, pane, index, new_tab_text, ok)
        /\ op' = IF ok THEN "rename_tab" ELSE "rename_tab(cancelled)"
        /\ scenario' = Follow("rename_tab")
    /\ UNCHANGED exit_code
    /\ UNCHANGED notPane

NextRename ==
    \/ AddTab
    \/ DoubleTimer
    \/ MoveTab
    \/ RenameTab

SpecRename == InitRename /\ [][NextRename]_vars

(***************************************************************************)
(* Pane invariants.                                                        *)
(***************************************************************************)
MainIds == WidgetsOf(win.main_tab_widget)

SecondIds == IF win.second_tab_widget = None THEN {} ELSE WidgetsOf(second(win))

\* the pages of both panes, main pane first
AllPages ==
    win.main_tab_widget.tabs
    \o (IF win.second_tab_widget = None THEN <<>> ELSE second(win).tabs)

Occurrences(id) == Cardinality({i \in 1..Len(AllPages) : AllPages[i].widget = id})

\* C2 (I1): after every handler the main pane holds at least one tab, and a
\* handler that takes the only tab out of the main pane (a close or a move)
\* leaves exactly one tab there, a widget created by that same handler.
C2_PrimaryNeverEmpty ==
    /\ [](count(win.main_tab_widget) >= 1)
    /\ [][(count(win.main_tab_widget) = 1
           /\ win.main_tab_widget.tabs[1].widget \notin WidgetsOf(win'.main_tab_widget))
          => /\ count(win'.main_tab_widget) = 1
             /\ win'.main_tab_widget.tabs[1].widget = win.next_id
             /\ win'.next_id = win.next_id + 1]_vars

\* the last tab of the main pane was closed and has been replaced
C2_Witness ==
    /\ op = "close_main_tab"
    /\ win.next_id = 3
    /\ count(win.main_tab_widget) = 1
    /\ win.main_tab_widget.tabs[1].widget = 2

\* C3 (I2): after every handler the second pane exists only with at least one
\* tab; closing the last tab of the second pane leaves no second pane, and
\* opening the dual pane leaves a second pane of exactly one tab.
C3_SecondaryIffNonEmpty ==
    /\ [](win.second_tab_widget # None => count(second(win)) >= 1)
    /\ [][/\ (op' = "close_second_tab" /\ win.second_tab_widget # None
              /\ count(second(win)) = 1)
             => win'.second_tab_widget = None
          /\ (op' = "initialize_double_pane" /\ win.second_tab_widget = None)
             => (win'.second_tab_widget # None /\ count(win'.second_tab_widget[1]) = 1)]_vars

\* the only tab of the second pane was closed, and the pane is gone
C3_Witness ==
    /\ op = "close_second_tab"
    /\ win.second_tab_widget = None
    /\ win.next_id >= 3

\* C4 (I3): after every handler each live terminal widget is a page of
\* exactly one pane, exactly once, and every page is a live widget.
C4_ExactlyOnePane ==
    /\ \A id \in DOMAIN win.widgets : Occurrences(id) = 1
    /\ MainIds \cup SecondIds = DOMAIN win.widgets
    /\ MainIds \cap SecondIds = {}

\* a tab was moved into a second pane that already held a tab
C4_Witness ==
    /\ op = "move_tab_to_second_pane"
    /\ win.second_tab_widget # None
    /\ count(second(win)) >= 2

\* C5 (I4): over a run at most one tab is handed the startup command of the
\* command line (each such tab executes it when its uxterm starts).
C5_StartupCommandAtMostOnce == win.startup_tabs <= 1

\* C8: a tab created with a command runs that command once in total, however
\* often its uxterm is restarted: never more than once, and exactly once
\* while its process is running.
C8_CommandOncePerSession ==
    \A id \in DOMAIN win.widgets :
        Truthy(win.widgets[id].command)
        => /\ win.widgets[id].cmd_runs <= 1
           /\ win.widgets[id].running => win.widgets[id].cmd_runs = 1

(***************************************************************************)
(* Single-instance protocol.                                               *)
(***************************************************************************)
\* every byte of the connection has reached the primary
AllDelivered == conn.pos = Len(conn.stream)

\* C1 (P1): once all the bytes a client wrote for its message m have reached
\* the primary, however they were split into chunks, read_socket has handed
\* over exactly one message, and it decodes to m.
C1_RoundTripUnderChunking ==
    (conn.origin = "client" /\ AllDelivered)
    => /\ Len(conn.received) = 1
       /\ loads(conn.received[1]) = Parsed(conn.message, Len(conn.received[1]) + 1)

\* C6 (P6): once the message of a client launched beside a running, registered
\* primary has fully arrived, the primary has created exactly one tab for it,
\* as the new last tab of its main pane, and raised its window; the client
\* made no window and exited with status 0.
C6_OneTabPerLaunch ==
    (conn.origin = "client" /\ AllDelivered)
    => /\ conn.created = 1
       /\ Len(win.main_tab_widget.tabs) = Len(conn.main_before) + 1
       /\ SubSeq(win.main_tab_widget.tabs, 1, Len(conn.main_before)) = conn.main_before
       /\ conn.raised
       /\ conn.client[1].exited /\ conn.client[1].exit_code = 0
       /\ ~conn.client[1].window

Header == SubSeq(conn.stream, 1, 8)

Body == SubSeq(conn.stream, 9, Len(conn.stream))

\* the connection carries one frame: eight digits and as many bytes after
\* them as they say
WellFramed ==
    /\ conn.origin # "none"
    /\ Len(conn.stream) >= 8
    /\ Header = Format08(Len(Body))

\* the whole frame was there at the first readyRead
DeliveredWhole == AllDelivered /\ ~conn.split

\* C10: once the first eight bytes of a connection have arrived and one of
\* them is not an ASCII digit, the connection has been dropped with a warning
\* and has created no tab.
C10_NonDigitHeaderDropped ==
    (conn.origin # "none" /\ conn.pos >= 8 /\ \E i \in 1..8 : ~IsDigit(Header[i]))
    => /\ ~conn.open
       /\ conn.warned
       /\ conn.created = 0
       /\ win.main_tab_widget.tabs = conn.main_before

(***************************************************************************)
(* Single instance.                                                        *)
(***************************************************************************)
Started == {p \in Procs : inst.procs[p].pc # "main" /\ ~inst.procs[p].new}

Clients == {p \in Procs : inst.procs[p].role = "client"}

\* C7: at every moment of every interleaving of the start-ups, at most one
\* process is listening at the endpoint; a started process that is still
\* running as primary is that listener; every other started process is a
\* client, and a client has sent at most one request, has no window and no
\* session, and exits with status 0.
C7_SingleInstance ==
    /\ Cardinality(inst.listening) <= 1
    /\ \A p \in Started :
        \/ /\ inst.procs[p].role = "primary"
           /\ inst.procs[p].pc # "exited" => inst.listening = {p}
        \/ /\ inst.procs[p].role = "client"
           /\ inst.procs[p].sent <= 1
           /\ ~inst.procs[p].window
           /\ inst.procs[p].sessions = 0
           /\ inst.procs[p].pc = "exited" => inst.procs[p].exit_code = Some(0)

\* a primary runs its event loop, two other processes have started beside
\* it, and one of them has sent its request and exited
C7_Witness ==
    \E p, q, r \in Procs :
        /\ p # q /\ q # r /\ p # r
        /\ inst.procs[p].pc = "exec" /\ p \in inst.listening
        /\ q \in Clients /\ inst.procs[q].pc = "exited" /\ inst.procs[q].sent = 1
        /\ r \in Clients

(***************************************************************************)
(* Resize debounce.                                                        *)
(***************************************************************************)
\* the calls of resize_terminal the resize events of the burst produced
Produced == SelectSeq(xterm.calls, LAMBDA c : c.origin = "resize_timer")

C11_MalformedBodyRejected ==
    (WellFramed /\ DeliveredWhole /\ ~loads(Body).ok)
    => /\ ~conn.open
       /\ conn.created = 0
       /\ win.main_tab_widget.tabs = conn.main_before

\* the page the connection added to the main pane, if it added one
NewPage == win.main_tab_widget.tabs[Len(win.main_tab_widget.tabs)]

\* C12: once a correctly framed body that is well-formed JSON has been read
\* (the frame having arrived whole), no error was raised and the connection
\* is closed; where the body is an object whose action is open_new_tab,
\* exactly one tab was added to the main pane, with the window's directory
\* if folder is absent and with no command if command is absent.
C12_WellFormedAccepted ==
    (WellFramed /\ DeliveredWhole /\ loads(Body).ok)
    => /\ ~conn.exception
       /\ ~conn.open
       /\ (loads(Body).v.t = "obj" /\ get(loads(Body).v, ActionKey) = JStr(OpenNewTab))
          => /\ conn.created = 1
             /\ Len(win.main_tab_widget.tabs) = Len(conn.main_before) + 1
             /\ get(loads(Body).v, FolderKey) = JNull
                => win.widgets[NewPage.widget].initial_directory = win.initial_directory
             /\ get(loads(Body).v, CommandKey) = JNull /\ win.command = None
                => win.widgets[NewPage.widget].command = None

(***************************************************************************)
(* Opening and closing the second pane.                                    *)
(***************************************************************************)
\* C13: close_second_half with tabs [s1..sk] in the second pane and
\* [p1..pn] in the main pane leaves the main pane as [p1..pn, s1..sk], labels
\* included, and no second pane; no terminal process is terminated or
\* restarted, no widget is created and none is lost.
C13_CloseSecondPaneAppends ==
    [][(op' = "close_second_half" /\ win.second_tab_widget # None)
       => /\ win'.main_tab_widget.tabs = win.main_tab_widget.tabs \o second(win).tabs
          /\ win'.second_tab_widget = None
          /\ win'.widgets = win.widgets
          /\ win'.next_id = win.next_id
          /\ win'.tab_counter = win.tab_counter]_vars

\* a second pane holding widgets 2 and 1, in that order, was closed beside a
\* main pane holding widget 3
C13_Witness ==
    /\ op = "close_second_half"
    /\ win.second_tab_widget = None
    /\ count(win.main_tab_widget) = 3
    /\ win.main_tab_widget.tabs[1].widget = 3
    /\ win.main_tab_widget.tabs[2].widget = 2
    /\ win.main_tab_widget.tabs[3].widget = 1

\* C14: initialize_double_pane changes no pane, widget, process or counter
\* when the second pane exists; when it does not, it leaves a second pane
\* whose only tab is a widget created by the call, and the main pane's tabs
\* as they were.
C14_OpenSecondPane ==
    [][op' = "initialize_double_pane"
       => IF win.second_tab_widget # None
          THEN /\ win'.second_tab_widget = win.second_tab_widget
               /\ win'.main_tab_widget = win.main_tab_widget
               /\ win'.widgets = win.widgets
               /\ win'.next_id = win.next_id
               /\ win'.tab_counter = win.tab_counter
          ELSE /\ win'.second_tab_widget # None
               /\ count(win'.second_tab_widget[1]) = 1
               /\ win'.second_tab_widget[1].tabs[1].widget = win.next_id
               /\ win'.next_id = win.next_id + 1
               /\ DOMAIN win'.widgets = DOMAIN win.widgets \cup {win.next_id}
               /\ win'.main_tab_widget.tabs = win.main_tab_widget.tabs]_vars

\* the timer of --double found the second pane already made by a move of
\* the first tab, and changed nothing
C14_Witness ==
    /\ op = "initialize_double_pane"
    /\ ~win.double_timer
    /\ win.second_tab_widget # None
    /\ count(second(win)) = 1
    /\ second(win).tabs[1].widget = 1
    /\ win.next_id = 3

\* C15: the example.  After closing the only tab T1 of the window as
\* constructed, the main pane holds exactly one tab, labelled 2; after then
\* opening and closing the second pane, the main pane holds the tabs
\* labelled 2 and 3, in that order, and there is no second pane.
C15_ExampleScenario ==
    /\ scenario = 1
       => /\ count(win.main_tab_widget) = 1
          /\ win.main_tab_widget.tabs[1].text = 2
    /\ scenario = 3
       => /\ count(win.main_tab_widget) = 2
          /\ win.main_tab_widget.tabs[1].text = 2
          /\ win.main_tab_widget.tabs[2].text = 3
          /\ win.second_tab_widget = None

\* C17: once the application has started, no handler makes it exit.
C17_NoExitAfterStartup == exit_code = None

\* C16: a client whose connection to the endpoint failed has shown the
\* warning, has written no message, has no window and no session, and has
\* exited (with status 0) without listening at the endpoint.
C16_ConnectFailure ==
    \A p \in Procs :
        inst.procs[p].connected = Some(FALSE)
        => /\ inst.procs[p].role = "client"
           /\ inst.procs[p].warned
           /\ inst.procs[p].sent = 0
           /\ ~inst.procs[p].window
           /\ inst.procs[p].sessions = 0
           /\ inst.procs[p].pc = "exited"
           /\ inst.procs[p].exit_code = Some(0)
           /\ p \notin inst.listening

\* a primary was killed and left the name behind; a later process took the
\* client role and could not connect
C16_Witness ==
    \E p, q \in Procs :
        /\ inst.procs[p].role = "primary" /\ inst.procs[p].pc = "exited"
        /\ inst.socket_file
        /\ inst.procs[q].connected = Some(FALSE)

Separate == {p \in Procs : inst.procs[p].new}

\* C18: a process launched with --new never listens at the endpoint, never
\* sends and never receives a request, and runs with its own window and one
\* tab; none of its steps changes the endpoint, the listener or any other
\* process, so it neither keeps a process launched without --new from
\* becoming primary nor changes which process is primary.
C18_NewBypassesCoordinator ==
    /\ [](\A p \in Separate :
             /\ p \notin inst.listening
             /\ inst.procs[p].role \in {"none", "separate"}
             /\ inst.procs[p].sent = 0
             /\ inst.procs[p].received = 0
             /\ inst.procs[p].pc = "exec"
                => inst.procs[p].window /\ inst.procs[p].sessions = 1)
    /\ [][\A p \in Separate :
             inst'.procs[p] # inst.procs[p]
             => /\ inst'.socket_file = inst.socket_file
                /\ inst'.listening = inst.listening
                /\ \A q \in Procs \ {p} : inst'.procs[q] = inst.procs[q]]_vars

\* beside a running --new process, a process launched later without --new
\* is primary and has served a third process as its client
C18_Witness ==
    \E p, q, r \in Procs :
        /\ inst.procs[p].new /\ inst.procs[p].pc = "exec"
        /\ ~inst.procs[q].new /\ q \in inst.listening /\ inst.procs[q].received = 1
        /\ inst.procs[r].role = "client" /\ inst.procs[r].sent = 1

(***************************************************************************)
(* Concurrent clients.                                                     *)
(***************************************************************************)
\* the directory add_terminal_tab gives a tab made for message m
DirectoryFor(m) ==
    IF get(m, FolderKey).t = "str" /\ get(m, FolderKey).s \in ExistingDirs
    THEN get(m, FolderKey).s ELSE win.initial_directory

\* C19: with k >= 2 clients connected at the same time, once the readyRead
\* of every connection has been handled, every connection has been read by
\* its own handler and closed, and exactly one tab has been made from each
\* connection's frame, with the folder and the command of that connection's
\* message: k tabs in all.
C19_OneTabPerConnection ==
    (Len(server.socks) >= 2 /\ server.fired = DOMAIN server.socks)
    => /\ win.next_id = Len(server.socks) + 2
       /\ \A i \in DOMAIN server.socks :
           /\ server.reads[i] = i
           /\ ~server.socks[i].open
           /\ Len(server.tab_of[i]) = 1
           /\ win.widgets[server.tab_of[i][1]].initial_directory
                  = DirectoryFor(server.socks[i].message)
           /\ win.widgets[server.tab_of[i][1]].command
                  = AsOptional(get(server.socks[i].message, CommandKey))

\* two clients with different folders and commands were connected before
\* either was read, the second was read first, and both have their tab
C19_Witness ==
    /\ Len(server.socks) = 2
    /\ server.fired = {1, 2}
    /\ server.socks[1].message # server.socks[2].message
    /\ get(server.socks[1].message, FolderKey) # get(server.socks[2].message, FolderKey)
    /\ get(server.socks[1].message, CommandKey) # get(server.socks[2].message, CommandKey)
    /\ server.tab_of[2] = <<2>>
    /\ server.tab_of[1] = <<3>>

(***************************************************************************)
(* Run to completion.                                                      *)
(***************************************************************************)
\* C20: no add_terminal_tab call starts while another is in progress, and
\* every finished call labelled its tab with the counter value it was
\* given.
C20_RunToCompletion ==
    /\ \A i \in DOMAIN calls.stack : ~calls.stack[i].interleaved
    /\ \A i \in DOMAIN calls.done :
        /\ ~calls.done[i].interleaved
        /\ calls.done[i].text = calls.done[i].counter

(***************************************************************************)
(* Tab labels.                                                             *)
(***************************************************************************)
\* C21: the counter value (label "Terminal n") of a newly created tab is
\* greater than every value given before, so no two tabs that are live in
\* the two panes carry the same value.
C21_MonotonicCounter ==
    \A i, j \in 1..Len(AllPages) :
        i # j => AllPages[i].text # AllPages[j].text

(***************************************************************************)
(* Shutdown.                                                               *)
(***************************************************************************)
\* C22: whenever the application has quit (window close confirmed, or
\* "Exit App" of a menu), terminate has been called on the process of every
\* tab of both panes, so none is running; and a window close that the user
\* declines changes nothing.
C22_TerminateBeforeQuit ==
    /\ [](exit_code = Some(0)
          => \A id \in DOMAIN win.widgets : ~win.widgets[id].running)
    /\ [][(op' = "closeEvent" /\ exit_code' = None) => win' = win]_vars

(***************************************************************************)
(* Requests during start-up.                                               *)
(***************************************************************************)
\* C23: a client's request that the primary reads after it has bound the
\* endpoint, be it before the main window is registered, results in exactly
\* one tab once its frame (arrived whole) has been decoded.
C23_RequestBeforeRegistration ==
    (conn.origin = "client" /\ DeliveredWhole) => conn.created = 1

(***************************************************************************)
(* Moving a tab to the second pane.                                        *)
(***************************************************************************)
\* C24: move_tab_to_second_pane of a tab s of the main pane takes s out of
\* the main pane and puts it last in the second pane, which is created if
\* absent; s keeps its label and its process as it was, and is the current
\* tab of the second pane; the other tabs of both panes keep their order
\* (a main pane emptied by the move gets one new tab).
C24_MoveAppends ==
    [][op' = "move_tab_to_second_pane"
       => \E index \in 1..count(win.main_tab_widget) :
            LET page == win.main_tab_widget.tabs[index]
                rest == removeTab(win.main_tab_widget, index).tabs
                before == IF win.second_tab_widget = None
                          THEN <<>> ELSE second(win).tabs
            IN /\ win'.second_tab_widget # None
               /\ win'.second_tab_widget[1].tabs = Append(before, page)
               /\ win'.second_tab_widget[1].current = Len(before) + 1
               /\ \A id \in DOMAIN win.widgets :
                    id \in DOMAIN win'.widgets /\ win'.widgets[id] = win.widgets[id]
               /\ IF rest = <<>>
                  THEN /\ count(win'.main_tab_widget) = 1
                       /\ win'.main_tab_widget.tabs[1].widget = win.next_id
                  ELSE win'.main_tab_widget.tabs = rest]_vars

\* a running tab was moved into a second pane that already held a tab, and
\* other tabs stayed in the main pane
C24_Witness ==
    /\ op = "move_tab_to_second_pane"
    /\ win.second_tab_widget # None
    /\ count(second(win)) = 2
    /\ win.widgets[second(win).tabs[2].widget].running
    /\ second(win).current = 2

\* C25: move_tab_to_second_pane asked for a tab of the second pane changes
\* nothing: the tabs of both panes, every process, the counter and the
\* second pane are as before.
C25_MoveFromSecondRejected ==
    [][op' = "move_tab_to_second_pane(second_tab_widget)" => win' = win]_vars

\* the move was asked on the second pane while the main pane held a tab
C25_Witness ==
    /\ op = "move_tab_to_second_pane(second_tab_widget)"
    /\ win.second_tab_widget # None
    /\ count(win.main_tab_widget) >= 1

(***************************************************************************)
(* Closing a tab.                                                          *)
(***************************************************************************)
\* C26: closing a tab s calls terminate on s and on no other tab and takes
\* exactly s out of its pane; the other tabs keep pane, order, label and
\* process, and the other pane is untouched, also when the main pane's last
\* tab is closed beside a second pane (the main pane then gets one new tab).
C26_CloseRemovesOne ==
    [][/\ op' = "close_main_tab"
          => \E index \in 1..count(win.main_tab_widget) :
               LET s == win.main_tab_widget.tabs[index].widget
                   rest == removeTab(win.main_tab_widget, index).tabs
               IN /\ win'.terminated = win.terminated \cup {s}
                  /\ s \notin DOMAIN win'.widgets
                  /\ \A id \in DOMAIN win.widgets \ {s} :
                        id \in DOMAIN win'.widgets /\ win'.widgets[id] = win.widgets[id]
                  /\ win'.second_tab_widget = win.second_tab_widget
                  /\ IF rest = <<>>
                     THEN /\ count(win'.main_tab_widget) = 1
                          /\ win'.main_tab_widget.tabs[1].widget = win.next_id
                     ELSE win'.main_tab_widget.tabs = rest
       /\ op' = "close_second_tab"
          => /\ win.second_tab_widget # None
             /\ \E index \in 1..count(second(win)) :
                  LET s == second(win).tabs[index].widget
                      rest == removeTab(second(win), index).tabs
                  IN /\ win'.terminated = win.terminated \cup {s}
                     /\ s \notin DOMAIN win'.widgets
                     /\ \A id \in DOMAIN win.widgets \ {s} :
                           id \in DOMAIN win'.widgets
                           /\ win'.widgets[id] = win.widgets[id]
                     /\ win'.main_tab_widget = win.main_tab_widget
                     /\ IF rest = <<>>
                        THEN win'.second_tab_widget = None
                        ELSE win'.second_tab_widget[1].tabs = rest]_vars

\* the main pane's last tab was closed beside a second pane holding a
\* running tab
C26_Witness ==
    /\ op = "close_main_tab"
    /\ win.tab_counter = 1
    /\ win.second_tab_widget # None
    /\ win.widgets[second(win).tabs[1].widget].running

C28_NewTabLastAndCurrent ==
    [][op' = "add_terminal_tab"
       => LET page == [widget |-> win.next_id, text |-> win'.tab_counter]
          IN /\ win.next_id \in DOMAIN win'.widgets
             /\ \/ /\ win'.main_tab_widget.tabs = Append(win.main_tab_widget.tabs, page)
                   /\ win'.main_tab_widget.current = count(win'.main_tab_widget)
                   /\ win'.second_tab_widget = win.second_tab_widget
                \/ /\ win.second_tab_widget # None
                   /\ win'.second_tab_widget # None
                   /\ win'.second_tab_widget[1].tabs = Append(second(win).tabs, page)
                   /\ win'.second_tab_widget[1].current
                          = count(win'.second_tab_widget[1])
                   /\ win'.main_tab_widget = win.main_tab_widget]_vars

\* a tab was added to a second pane that held a tab, beside a main pane
C28_Witness ==
    /\ op = "add_terminal_tab"
    /\ win.second_tab_widget # None
    /\ count(second(win)) = 2
    /\ second(win).tabs[2].widget = win.next_id - 1
    /\ second(win).current = 2

(***************************************************************************)
(* One request per connection; frames that never complete.                 *)
(***************************************************************************)
\* C29: whatever bytes are written on a connection, two or more complete
\* frames included, the primary creates at most one tab for it, and once it
\* has handled a frame the connection is disconnected.
C29_OneRequestPerConnection ==
    conn.origin # "none"
    => /\ conn.created <= 1
       /\ conn.received # <<>> => ~conn.open

\* C30: while a connection has delivered fewer than eight bytes, or a valid
\* header and fewer bytes behind it than the header declares, no tab has
\* been created for it and the main pane is as it was.
C30_IncompleteFrame ==
    (/\ conn.origin # "none"
     /\ \/ Len(conn.stream) < 8
        \/ /\ int(Header).ok
           /\ Len(Body) < int(Header).n)
    => /\ conn.created = 0
       /\ win.main_tab_widget.tabs = conn.main_before

(***************************************************************************)
(* A launch that fails.                                                    *)
(***************************************************************************)
\* the pages of `tw` whose widgets existed before the step
Old(tw) == SelectSeq(tw.tabs, LAMBDA page : page.widget < win.next_id)

\* C31: when a handler made a tab whose uxterm did not report started, every
\* other tab has its process as before; the main pane is not empty and a
\* second pane, if there is one, is not empty; the application has not
\* exited; and where the handler was add_terminal_tab the other tabs are in
\* their panes at their places.
C31_LaunchFailureIsolated ==
    [][(/\ op' # "sys.exit"
        /\ \E id \in DOMAIN win'.widgets :
             id >= win.next_id /\ ~win'.widgets[id].running)
       => /\ \A id \in DOMAIN win.widgets \cap DOMAIN win'.widgets :
                win'.widgets[id] = win.widgets[id]
          /\ count(win'.main_tab_widget) >= 1
          /\ win'.second_tab_widget # None => count(win'.second_tab_widget[1]) >= 1
          /\ exit_code' = None
          /\ op' = "add_terminal_tab"
             => /\ Old(win'.main_tab_widget) = win.main_tab_widget.tabs
                /\ win.second_tab_widget # None
                   => /\ win'.second_tab_widget # None
                      /\ Old(win'.second_tab_widget[1]) = second(win).tabs]_vars

\* a tab whose launches failed was added beside a tab whose uxterm runs
C31_Witness ==
    /\ op = "add_terminal_tab"
    /\ exit_code = None
    /\ count(win.main_tab_widget) = 2
    /\ win.widgets[win.main_tab_widget.tabs[1].widget].running
    /\ ~win.widgets[win.main_tab_widget.tabs[2].widget].running
    /\ win.main_tab_widget.tabs[2].widget = win.next_id - 1

(***************************************************************************)
(* The role of a process at start-up.                                      *)
(***************************************************************************)
\* C32: a process takes the client role only while a running instance is
\* listening at the endpoint; with no such instance (none started, or the
\* primary has exited or was killed) a process launched without --new
\* becomes the primary.
C32_ClientOnlyIfOwned ==
    [][\A p \in Procs :
         (inst.procs[p].role # "client" /\ inst'.procs[p].role = "client")
         => inst.listening # {}]_vars

(***************************************************************************)
(* terminate, resize_terminal and the geometry of one XTermWidget.         *)
(***************************************************************************)
\* C33: every call of terminate returns, having waited no longer than the
\* wait for the process to finish, and leaves no uxterm alive; on a widget
\* whose process is stopped or was never made it signals nothing and
\* changes nothing, and a second call right after the first leaves what
\* the first left: no live process and no further kill.
C33_TerminateReturns ==
    [][xterm'.last = "terminate"
       => /\ xterm'.waited <= WaitForFinished
          /\ ~xterm'.alive
          /\ (xterm.process \in {"none", "NotRunning"}
              => xterm' = [xterm EXCEPT !.waited = 0, !.last = "terminate"])
          /\ \A graceful \in BOOLEAN :
               LET again == XTermWidget_terminate(xterm', graceful)
               IN /\ again.alive = xterm'.alive
                  /\ again.sigkill = xterm'.sigkill
                  /\ again.geometry = xterm'.geometry
                  /\ again.warnings = xterm'.warnings]_vars

\* terminate was called twice on a uxterm that had to be killed
C33_Witness ==
    /\ xterm.last = "terminate"
    /\ xterm.sigkill = 1
    /\ xterm.sigterm = 2
    /\ xterm.process = "NotRunning"

(***************************************************************************)
(* The settings dialog.                                                    *)
(***************************************************************************)
\* the widgets that are pages of a pane of w
InPanes(w) ==
    WidgetsOf(w.main_tab_widget)
    \cup (IF w.second_tab_widget = None THEN {} ELSE WidgetsOf(second(w)))

\* C34: an accepted settings dialog leaves every widget of the main and of
\* the second pane with the window's new settings and launched again (a
\* widget with a command has run it once more if the launch succeeded),
\* and leaves both panes, their tabs, order, labels and the counter as they
\* were; a dialog that was not accepted leaves the window as it was.
C34_SettingsUpdate ==
    [][/\ op' = "open_settings_dialog"
          => /\ \A id \in InPanes(win') :
                  /\ win'.widgets[id].current_settings = win'.settings
                  /\ win'.widgets[id].cmd_runs =
                         win.widgets[id].cmd_runs
                         + (IF win'.widgets[id].running
                               /\ Truthy(win'.widgets[id].command)
                            THEN 1 ELSE 0)
             /\ win'.main_tab_widget = win.main_tab_widget
             /\ win'.second_tab_widget = win.second_tab_widget
             /\ win'.tab_counter = win.tab_counter
             /\ DOMAIN win'.widgets = DOMAIN win.widgets
             /\ win'.terminated = win.terminated
       /\ op' = "open_settings_dialog(rejected)" => win' = win]_vars

\* settings other than the defaults were accepted with both panes open
C34_Witness ==
    /\ op = "open_settings_dialog"
    /\ win.second_tab_widget # None
    /\ win.settings # DEFAULT_SETTINGS
    /\ \A id \in InPanes(win) : win.widgets[id].current_settings = win.settings
    /\ \E id \in InPanes(win) : win.widgets[id].running

\* C35: resize_terminal on a widget whose process has ended or was never
\* started, or whose tty ps does not name, changes no geometry and shows
\* no warning; and called again at the same size it leaves the geometry
\* the first call left.
C35_ResizeSilentNoOp ==
    [][xterm'.last = "resize_terminal"
       => /\ (xterm.process # "Running" \/ ~xterm.alive \/ ~xterm.tty)
             => /\ xterm'.geometry = xterm.geometry
                /\ xterm'.warnings = xterm.warnings
          /\ resize_terminal(xterm', "resize_timer").geometry = xterm'.geometry]_vars

\* C36: for a widget of width w >= 0 and height h >= 0, resize_terminal on
\* a running uxterm applies max(1, floor(w / 7)) columns and
\* max(1, floor(h / 15)) rows, both at least 1, also at size 0 x 0.
C36_GeometryDerivation ==
    [][(/\ xterm'.last = "resize_terminal"
        /\ xterm.process = "Running" /\ xterm.alive /\ xterm.tty)
       => LET applied == xterm'.geometry
              w == xterm.size.width
              h == xterm.size.height
          IN /\ w >= 0 /\ h >= 0
             /\ applied.size = xterm.size
             /\ applied.cols = Max(1, w \div 7)
             /\ applied.rows = Max(1, h \div 15)
             /\ applied.cols >= 1 /\ applied.rows >= 1
             /\ Len(xterm'.calls) = Len(xterm.calls) + 1
             /\ xterm'.calls[Len(xterm'.calls)].cols = applied.cols
             /\ xterm'.calls[Len(xterm'.calls)].rows = applied.rows]_vars

\* a running uxterm was resized on a widget of size 0 x 0
C36_Witness ==
    /\ xterm.last = "resize_terminal"
    /\ xterm.process = "Running" /\ xterm.alive /\ xterm.tty
    /\ xterm.geometry = [size |-> QSize(0, 0), cols |-> 1, rows |-> 1]

(***************************************************************************)
(* Started in the tray.                                                    *)
(***************************************************************************)
\* C37: a window started with --tray is hidden when startup is over, and a
\* hidden window comes on screen only by show_normal of the tray (Restore,
\* a click on the icon) or by a request of another instance; the timer of
\* --double does not show it.
C37_TrayStaysHidden ==
    /\ [](op = "__init__" => ~win.visible)
    /\ [][(~win.visible /\ win'.visible)
          => op' \in {"show_normal", "handle_new_instance_message"}]_vars

(***************************************************************************)
(* Renaming a tab.                                                         *)
(***************************************************************************)
\* the pages of both panes, each with its pane and index
Pages(w) ==
    {<<"main", i>> : i \in 1..count(w.main_tab_widget)}
    \cup (IF w.second_tab_widget = None THEN {}
          ELSE {<<"second", i>> : i \in 1..count(second(w))})

PageAt(w, at) ==
    IF at[1] = "main" THEN w.main_tab_widget.tabs[at[2]] ELSE second(w).tabs[at[2]]

\* C38: rename_tab changes the label of at most one tab and nothing else:
\* no widget is created, stopped or restarted, both panes keep their tabs
\* in their order and their current tab, the counter stays, and no label
\* becomes empty; a rename that was cancelled changes nothing.
C38_RenameOnlyLabel ==
    [][/\ op' \in {"rename_tab", "rename_tab(cancelled)"}
          => /\ win'.widgets = win.widgets
             /\ win'.terminated = win.terminated
             /\ win'.tab_counter = win.tab_counter
             /\ win'.next_id = win.next_id
             /\ Pages(win') = Pages(win)
             /\ win'.main_tab_widget.current = win.main_tab_widget.current
             /\ win.second_tab_widget # None
                => second(win').current = second(win).current
             /\ \A at \in Pages(win) :
                  /\ PageAt(win', at).widget = PageAt(win, at).widget
                  /\ PageAt(win', at).text # EmptyText
             /\ Cardinality({at \in Pages(win) :
                               PageAt(win', at).text # PageAt(win, at).text}) <= 1
       /\ op' = "rename_tab(cancelled)" => win' = win]_vars

\* a tab of the second pane was given a text of the user's, the first tab
\* of the main pane has the label it was created with
C38_Witness ==
    /\ op = "rename_tab"
    /\ win.second_tab_widget # None
    /\ \E i \in 1..count(second(win)) : second(win).tabs[i].text < 0
    /\ win.main_tab_widget.tabs[1].text > 0
    /\ \A id \in DOMAIN win.widgets : id \notin win.terminated

====
